---- MODULE Spec2Model ----
(***************************************************************************)
(* Model of the zarban-go SDK's hand-written logic:                        *)
(*   - HandleAPIResponse, the response classifier, in its service variant  *)
(*     (src/service/utils.go) and its examples variant                     *)
(*     (src/examples/errorHandler.go);                                     *)
(*   - CreateVaultExample and VaultDebtRepayExample, the step-wise         *)
(*     transaction executors (src/unnamed/part_008), with the transaction  *)
(*     log file they write and the helpers they call.                      *)
(***************************************************************************)
EXTENDS Integers, Sequences, FiniteSets, TLC

(***************************************************************************)
(* Bounds of the model.                                                    *)
(***************************************************************************)
MaxLocales == 2
MaxList == 2

(***************************************************************************)
(* JSON documents.  A response body is modelled by the document its bytes  *)
(* hold: `top` says whether the bytes are unreadable, not JSON at all, the *)
(* JSON null, a JSON value that is not an object, or an object; an object  *)
(* holds the four members the decoders look at.  A member is absent, null, *)
(* of a JSON type the Go field cannot take ("bad"), or well typed.         *)
(***************************************************************************)
Absent == [t |-> "absent"]
JNull == [t |-> "null"]
JBad == [t |-> "bad"]
JStr(s) == [t |-> "str", s |-> s]
JArr(a) == [t |-> "arr", a |-> a]
JMap(m) == [t |-> "map", m |-> m]
JEntry(um, so) == [t |-> "obj", userMessage |-> um, solutions |-> so]

AllLocales == <<"en-US", "fa-IR", "ar-SA", "tr-TR">>
Locales == {AllLocales[i] : i \in 1..MaxLocales}

SeqsUpTo(S, n) == UNION {[1..k -> S] : k \in 0..n}

ReasonLists == SeqsUpTo({"r1", "r2"}, MaxList)

EntryValues ==
    { JBad,
      JEntry(JStr("m1"), JArr(<<"s1", "s2">>)),
      JEntry(Absent, Absent),
      JEntry(JStr("m2"), JBad) }

MessagesValues ==
    {Absent, JNull, JBad} \cup
    {JMap(m) : m \in UNION {[L -> EntryValues] : L \in SUBSET Locales}}

MsgValues == {Absent, JBad, JStr(""), JStr("boom")}

ReasonsValues == {Absent, JBad} \cup {JArr(a) : a \in ReasonLists}

DataValues == {Absent, JBad, JStr("d1")}

Bodies ==
    { [top |-> "readerror"], [top |-> "invalid"], [top |-> "null"], [top |-> "other"] } \cup
    [top : {"object"}, messages : MessagesValues, msg : MsgValues,
     reasons : ReasonsValues, data : DataValues]

(***************************************************************************)
(* HTTP responses.  `request` is the *http.Request the response points to  *)
(* (NoRequest for a nil pointer), `requestID` the X-Request-ID header      *)
(* ("" when the header is absent, which is what Header.Get returns).       *)
(***************************************************************************)
NilResponse == [nil |-> TRUE]
NoRequest == [attached |-> FALSE]
TheRequest == [attached |-> TRUE, path |-> "/v1/vaults", method |-> "POST"]

Statuses == {199, 200, 299, 300, 404, 500}

ClientResponses ==
    [nil : {FALSE}, status : Statuses, requestID : {"", "req-1"},
     request : {TheRequest}, body : Bodies]

DetachedResponses ==
    [nil : {FALSE}, status : Statuses, requestID : {"", "req-1"},
     request : {NoRequest}, body : Bodies]

VARIABLES
    resp,           \* the *http.Response handed to the classifier
    result,         \* what the classifier returned
    flow,           \* "create", "repay", or "none" when no executor runs
    pc,             \* position of the executor in its code
    why,            \* the reason the run stopped with a fatal error
    numOfSteps,     \* outer numOfSteps
    stepNumber,     \* outer stepNumber
    s,              \* outer loop counter
    plan,           \* the ChainActivity returned by the latest poll
    numberOf,       \* CreateVaultExample's loop-local numberOf
    stepNumberIn,   \* CreateVaultExample's loop-local stepNumber
    steps,          \* the steps the inner loop ranges over
    number,         \* inner loop index (0-based)
    txHash,         \* hash of the transaction sent in this iteration, 0 for ""
    txToSave,       \* the EthereumTransaction built for the current step
    chain,          \* transactions broadcast so far, in order
    file,           \* content of the transaction log file
    logs,           \* the event logs returned by getLogs
    vaultId,        \* the id returned by getVaultId
    logsHash,       \* the hash getLogs was called with
    iters,          \* number of outer iterations entered
    init0,          \* the plan returned by the poll before the loop
    coop,           \* every poll so far advanced by one per confirmed step
    confirmed,      \* number of transactions confirmed with status 1
    sent,           \* iteration, position and plan of the latest broadcast
    sentInIter,     \* number of broadcasts of the current outer iteration
    submitted,      \* positions of the steps broadcast so far
    timeouts,       \* number of confirmation waits that timed out
    outcome,        \* how the latest confirmation wait ended
    apc,            \* position of each process inside SaveTransactionDetails
    aerr,           \* what each process's latest SaveTransactionDetails returned
    existingDataOf,   \* SaveTransactionDetails' existingData, per process
    transactionDataOf, \* SaveTransactionDetails' transactionData, per process
    atCall,         \* the entries the file held when the process made its call
    overlapped,     \* another process took a step during the process's call
    raced,          \* some call that wrote the file was overlapped
    acked,          \* the entries of the calls that returned nil, in order
    calls,          \* number of calls of SaveTransactionDetails made so far
    file0,          \* the entries the file held before the first call
    wpc,            \* position inside waitForTransactionReceipt
    maxWaitTime,    \* its argument maxWaitTime
    checkInterval,  \* its argument checkInterval
    elapsed,        \* the time that has passed since startTime
    polls,          \* number of calls of TransactionReceipt made
    wret,           \* what waitForTransactionReceipt returned
    pollOutcomes,   \* the outcomes of its calls of TransactionReceipt, in order
    toNativeArgs,   \* the arguments of a call of toNative
    toNativeRet,    \* what the call returned
    lpc,            \* position of RepayLoanExample in its code
    requests,       \* the RepayLoan requests issued so far, with their outcome
    answer,         \* the line the operator typed at the prompt
    confirm,        \* RepayLoanExample's confirm
    statusId,       \* the loan id the status is asked for
    polled,         \* the outcomes of the status calls of the loop, in order
    slept,          \* number of one-second sleeps of the loop
    valueText,      \* the value string of a prepared transaction
    valueRet        \* the value the executor built its transaction with

cvars == <<resp, result>>

evars == <<flow, pc, why, numOfSteps, stepNumber, s, plan, numberOf, stepNumberIn, steps,
           number, txHash, txToSave, chain, file, logs, vaultId, logsHash, iters, init0,
           coop, confirmed, sent, sentInIter, submitted, timeouts, outcome>>

avars == <<apc, aerr, existingDataOf, transactionDataOf, atCall, overlapped, raced, acked,
           calls, file0>>

wvars == <<wpc, maxWaitTime, checkInterval, elapsed, polls, wret, pollOutcomes>>

nvars == <<toNativeArgs, toNativeRet>>

rvars == <<lpc, requests, answer, confirm, statusId, polled, slept>>

vvars == <<valueText, valueRet>>

nonClassifier == <<evars, avars, wvars, nvars, rvars, vvars>>

nonExecutor == <<cvars, avars, wvars, nvars, rvars, vvars>>

vars == <<cvars, evars, avars, wvars, nvars, rvars, vvars>>

(***************************************************************************)
(* json.Unmarshal into the three Go types the classifier decodes to.  The  *)
(* outcome is [err, val]; val is the zero value when err is TRUE, because  *)
(* the classifier only looks at val when err is nil.                       *)
(***************************************************************************)
StrField(f) == IF f.t = "str" THEN f.s ELSE ""
ListField(f) == IF f.t = "arr" THEN f.a ELSE <<>>

EntryDecodes(e) == e.t = "obj" /\ e.userMessage.t # "bad" /\ e.solutions.t # "bad"

DecodeEntry(e) ==
    [UserMessage |-> StrField(e.userMessage), Solutions |-> ListField(e.solutions)]

NoMessages == [l \in {} |-> DecodeEntry(JEntry(Absent, Absent))]

ZeroUserError == [Messages |-> NoMessages]

DecodeUserError(b) ==
    IF b.top \in {"invalid", "other", "readerror"} THEN [err |-> TRUE, val |-> ZeroUserError]
    ELSE IF b.top = "null" THEN [err |-> FALSE, val |-> ZeroUserError]
    ELSE IF b.messages.t \in {"absent", "null"} THEN [err |-> FALSE, val |-> ZeroUserError]
    ELSE IF b.messages.t = "bad" THEN [err |-> TRUE, val |-> ZeroUserError]
    ELSE IF \E l \in DOMAIN b.messages.m : ~EntryDecodes(b.messages.m[l])
         THEN [err |-> TRUE, val |-> ZeroUserError]
    ELSE [err |-> FALSE,
          val |-> [Messages |-> [l \in DOMAIN b.messages.m |-> DecodeEntry(b.messages.m[l])]]]

ZeroError == [Msg |-> "", Reasons |-> <<>>]

DecodeError(b) ==
    IF b.top \in {"invalid", "other", "readerror"} THEN [err |-> TRUE, val |-> ZeroError]
    ELSE IF b.top = "null" THEN [err |-> FALSE, val |-> ZeroError]
    ELSE IF b.msg.t = "bad" \/ b.reasons.t = "bad" THEN [err |-> TRUE, val |-> ZeroError]
    ELSE [err |-> FALSE, val |-> [Msg |-> StrField(b.msg), Reasons |-> ListField(b.reasons)]]

ZeroSuccess == [Data |-> ""]

DecodeSuccess(b) ==
    IF b.top \in {"invalid", "other", "readerror"} THEN [err |-> TRUE, val |-> ZeroSuccess]
    ELSE IF b.top = "null" THEN [err |-> FALSE, val |-> ZeroSuccess]
    ELSE IF b.data.t = "bad" THEN [err |-> TRUE, val |-> ZeroSuccess]
    ELSE [err |-> FALSE, val |-> [Data |-> StrField(b.data)]]

(***************************************************************************)
(* Values of the Details field (an interface{} in the source).             *)
(***************************************************************************)
NilDetails == [t |-> "nil"]
UserErrorDetails(v) == [t |-> "UserError", v |-> v]
ErrorDetails(v) == [t |-> "Error", v |-> v]
RawDetails(b) == [t |-> "string", body |-> b]
ErrTextDetails == [t |-> "errtext"]

NotCalled == [kind |-> "none"]
Panic(v) == [kind |-> "panic", variant |-> v]
NilError(v, val) == [kind |-> "ok", variant |-> v, success |-> val]
WrappedError(v, m) == [kind |-> "error", variant |-> v, Message |-> m]

ServiceAPIError(code, m, d, rid, p, mt) ==
    [kind |-> "APIError", variant |-> "service", StatusCode |-> code, Message |-> m,
     Details |-> d, RequestID |-> rid, Path |-> p, Method |-> mt]

ExamplesAPIError(code, m, d) ==
    [kind |-> "APIError", variant |-> "examples", StatusCode |-> code, Message |-> m,
     Details |-> d]

(***************************************************************************)
(* Variants of the service classifier with one plausible slip each.        *)
(***************************************************************************)
ServiceClassify_MinTwoMessages(r) ==
    LET rid == r.requestID
        p == r.request.path
        mt == r.request.method
        ue == DecodeUserError(r.body)
        ge == DecodeError(r.body)
    IN  IF ~ue.err /\ Cardinality(DOMAIN ue.val.Messages) > 1
        THEN ServiceAPIError(r.status, "User error", UserErrorDetails(ue.val), rid, p, mt)
        ELSE IF ~ge.err /\ ge.val.Msg # ""
        THEN ServiceAPIError(r.status, ge.val.Msg, ErrorDetails(ge.val), rid, p, mt)
        ELSE ServiceAPIError(r.status, "Unhandled error", RawDetails(r.body), rid, p, mt)

ServiceClassify_NeedsReasons(r) ==
    LET rid == r.requestID
        p == r.request.path
        mt == r.request.method
        ue == DecodeUserError(r.body)
        ge == DecodeError(r.body)
    IN  IF ~ue.err /\ Cardinality(DOMAIN ue.val.Messages) > 0
        THEN ServiceAPIError(r.status, "User error", UserErrorDetails(ue.val), rid, p, mt)
        ELSE IF ~ge.err /\ ge.val.Msg # "" /\ Len(ge.val.Reasons) > 0
        THEN ServiceAPIError(r.status, ge.val.Msg, ErrorDetails(ge.val), rid, p, mt)
        ELSE ServiceAPIError(r.status, "Unhandled error", RawDetails(r.body), rid, p, mt)

ServiceClassify_DropsRawBody(r) ==
    LET rid == r.requestID
        p == r.request.path
        mt == r.request.method
        ue == DecodeUserError(r.body)
        ge == DecodeError(r.body)
    IN  IF ~ue.err /\ Cardinality(DOMAIN ue.val.Messages) > 0
        THEN ServiceAPIError(r.status, "User error", UserErrorDetails(ue.val), rid, p, mt)
        ELSE IF ~ge.err /\ ge.val.Msg # ""
        THEN ServiceAPIError(r.status, ge.val.Msg, ErrorDetails(ge.val), rid, p, mt)
        ELSE ServiceAPIError(r.status, "Unhandled error", NilDetails, rid, p, mt)

ServiceClassify_GenericFirst(r) ==
    LET rid == r.requestID
        p == r.request.path
        mt == r.request.method
        ue == DecodeUserError(r.body)
        ge == DecodeError(r.body)
    IN  IF ~ge.err /\ ge.val.Msg # ""
        THEN ServiceAPIError(r.status, ge.val.Msg, ErrorDetails(ge.val), rid, p, mt)
        ELSE IF ~ue.err /\ Cardinality(DOMAIN ue.val.Messages) > 0
        THEN ServiceAPIError(r.status, "User error", UserErrorDetails(ue.val), rid, p, mt)
        ELSE ServiceAPIError(r.status, "Unhandled error", RawDetails(r.body), rid, p, mt)

(***************************************************************************)
(* service.HandleAPIResponse                                               *)
(***************************************************************************)
ServiceClassify(r) ==
    LET rid == r.requestID
        p == r.request.path
        mt == r.request.method
        ue == DecodeUserError(r.body)
        ge == DecodeError(r.body)
    IN  IF ~ue.err /\ Cardinality(DOMAIN ue.val.Messages) > 0
        THEN ServiceAPIError(r.status, "User error", UserErrorDetails(ue.val), rid, p, mt)
        ELSE IF ~ge.err /\ ge.val.Msg # ""
        THEN ServiceAPIError(r.status, ge.val.Msg, ErrorDetails(ge.val), rid, p, mt)
        ELSE ServiceAPIError(r.status, "Unhandled error", RawDetails(r.body), rid, p, mt)

(***************************************************************************)
(* The service handler with the lower bound of the success range off by    *)
(* one.                                                                    *)
(***************************************************************************)
ServiceHandleAPIResponse_ClassifiesBadSuccess(r) ==
    IF r.nil
    THEN ServiceAPIError(500, "nil response received", NilDetails, "", "", "")
    ELSE IF ~r.request.attached
    THEN Panic("service")
    ELSE IF r.body.top = "readerror"
    THEN ServiceAPIError(500, "failed to read response body", ErrTextDetails,
                         r.requestID, r.request.path, r.request.method)
    ELSE IF r.status >= 200 /\ r.status < 300 /\ ~DecodeSuccess(r.body).err
    THEN NilError("service", DecodeSuccess(r.body).val)
    ELSE ServiceClassify(r)

ServiceHandleAPIResponse_Above200(r) ==
    IF r.nil
    THEN ServiceAPIError(500, "nil response received", NilDetails, "", "", "")
    ELSE IF ~r.request.attached
    THEN Panic("service")
    ELSE IF r.body.top = "readerror"
    THEN ServiceAPIError(500, "failed to read response body", ErrTextDetails,
                         r.requestID, r.request.path, r.request.method)
    ELSE IF r.status > 200 /\ r.status < 300
    THEN IF DecodeSuccess(r.body).err
         THEN ServiceAPIError(r.status, "failed to parse success response", ErrTextDetails,
                              r.requestID, r.request.path, r.request.method)
         ELSE NilError("service", DecodeSuccess(r.body).val)
    ELSE ServiceClassify(r)

ServiceHandleAPIResponse(r) ==
    IF r.nil
    THEN ServiceAPIError(500, "nil response received", NilDetails, "", "", "")
    ELSE IF ~r.request.attached
    THEN Panic("service")
    ELSE IF r.body.top = "readerror"
    THEN ServiceAPIError(500, "failed to read response body", ErrTextDetails,
                         r.requestID, r.request.path, r.request.method)
    ELSE IF r.status >= 200 /\ r.status < 300
    THEN IF DecodeSuccess(r.body).err
         THEN ServiceAPIError(r.status, "failed to parse success response", ErrTextDetails,
                              r.requestID, r.request.path, r.request.method)
         ELSE NilError("service", DecodeSuccess(r.body).val)
    ELSE ServiceClassify(r)

(***************************************************************************)
(* examples.HandleAPIResponse                                              *)
(***************************************************************************)
ExamplesClassify(r) ==
    LET ue == DecodeUserError(r.body)
        ge == DecodeError(r.body)
    IN  IF ~ue.err /\ Cardinality(DOMAIN ue.val.Messages) > 0
        THEN ExamplesAPIError(r.status, "User error", UserErrorDetails(ue.val))
        ELSE IF ~ge.err /\ ge.val.Msg # ""
        THEN ExamplesAPIError(r.status, "API error", ErrorDetails(ge.val))
        ELSE ExamplesAPIError(r.status, "Unhandled error", RawDetails(r.body))

ExamplesHandleAPIResponse(r) ==
    IF r.nil
    THEN Panic("examples")
    ELSE IF r.body.top = "readerror"
    THEN WrappedError("examples", "failed to read response body")
    ELSE IF r.status >= 200 /\ r.status < 300
    THEN IF DecodeSuccess(r.body).err
         THEN WrappedError("examples", "failed to parse success response")
         ELSE NilError("examples", DecodeSuccess(r.body).val)
    ELSE ExamplesClassify(r)

(***************************************************************************)
(* The classifier applied to one response.                                 *)
(***************************************************************************)
CallService ==
    /\ result = NotCalled
    /\ result' = ServiceHandleAPIResponse(resp)
    /\ UNCHANGED <<resp, nonClassifier>>

CallExamples ==
    /\ result = NotCalled
    /\ result' = ExamplesHandleAPIResponse(resp)
    /\ UNCHANGED <<resp, nonClassifier>>

NextClassifier == CallService \/ CallExamples

NoPlan == [NumberOfSteps |-> 0, StepNumber |-> 0]
NoTx == [value |-> 0, nonce |-> 0]
NoSent == [iter |-> 0, step |-> 0, planStep |-> 0]
AbsentFile == [st |-> "absent"]

NumProcs == 2

Procs == 1..NumProcs

AppendersIdle ==
    /\ apc = [p \in Procs |-> "idle"]
    /\ aerr = [p \in Procs |-> "none"]
    /\ existingDataOf = [p \in Procs |-> <<>>]
    /\ transactionDataOf = [p \in Procs |-> NoTx]
    /\ atCall = [p \in Procs |-> <<>>]
    /\ overlapped = [p \in Procs |-> FALSE]
    /\ raced = FALSE
    /\ acked = <<>>
    /\ calls = 0
    /\ file0 = <<>>

WaitIdle ==
    /\ wpc = "idle"
    /\ maxWaitTime = 0
    /\ checkInterval = 0
    /\ elapsed = 0
    /\ polls = 0
    /\ wret = "none"
    /\ pollOutcomes = <<>>

NoArgs == [variant |-> "none"]

NativeIdle ==
    /\ toNativeArgs = NoArgs
    /\ toNativeRet = [kind |-> "none"]

LoanIdle ==
    /\ lpc = "idle"
    /\ requests = <<>>
    /\ answer = <<>>
    /\ confirm = ""
    /\ statusId = ""
    /\ polled = <<>>
    /\ slept = 0

ValueIdle ==
    /\ valueText = <<>>
    /\ valueRet = [kind |-> "none"]

ExecutorIdle ==
    /\ flow = "none"
    /\ pc = "idle"
    /\ why = ""
    /\ numOfSteps = 0
    /\ stepNumber = 0
    /\ s = 0
    /\ plan = NoPlan
    /\ numberOf = 0
    /\ stepNumberIn = 0
    /\ steps = <<>>
    /\ number = 0
    /\ txHash = 0
    /\ txToSave = NoTx
    /\ chain = <<>>
    /\ file = AbsentFile
    /\ logs = <<>>
    /\ vaultId = 0
    /\ logsHash = 0
    /\ iters = 0
    /\ init0 = NoPlan
    /\ coop = TRUE
    /\ confirmed = 0
    /\ sent = NoSent
    /\ sentInIter = 0
    /\ submitted = {}
    /\ timeouts = 0
    /\ outcome = "none"

\* Responses as the typed API client returns them: net/http attaches the
\* request to every response a client obtains.
InitClient ==
    /\ resp \in ClientResponses
    /\ result = NotCalled
    /\ ExecutorIdle
    /\ AppendersIdle
    /\ WaitIdle
    /\ NativeIdle
    /\ LoanIdle
    /\ ValueIdle

\* Any *http.Response value a caller can pass, the nil pointer and
\* responses without attached request included.
InitAny ==
    /\ resp \in ClientResponses \cup DetachedResponses \cup {NilResponse}
    /\ result = NotCalled
    /\ ExecutorIdle
    /\ AppendersIdle
    /\ WaitIdle
    /\ NativeIdle
    /\ LoanIdle
    /\ ValueIdle

SpecClassifier == InitClient /\ [][NextClassifier]_vars

SpecClassifierAny == InitAny /\ [][NextClassifier]_vars

(***************************************************************************)
(* Step-wise executors (src/unnamed/part_008).                             *)
(*                                                                         *)
(* The remote API answers every poll with a plan of the shape the API      *)
(* documents: 1 <= StepNumber <= NumberOfSteps = len(Steps).  Nothing else *)
(* is assumed of it: two polls of one run may return unrelated plans.      *)
(***************************************************************************)
MaxSteps == 3
MaxLogs == 2
IntMax == 127

Plans ==
    {p \in [NumberOfSteps : 1..MaxSteps, StepNumber : 1..MaxSteps] :
        p.StepNumber <= p.NumberOfSteps}

StepsOf(p) == [i \in 1..p.NumberOfSteps |-> i]

\* Decimal strings are sequences of one-character strings.
DigitChars == <<"0", "1", "2", "3", "4", "5", "6", "7", "8", "9">>
IsDigit(c) == \E i \in 1..10 : DigitChars[i] = c
DigitVal(c) == (CHOOSE i \in 1..10 : DigitChars[i] = c) - 1

\* Accumulates the digits of str from position i on; -1 for a character that
\* is no digit, -2 when the value exceeds limit.
RECURSIVE ParseDigits(_, _, _, _)
ParseDigits(str, i, n, limit) ==
    IF i > Len(str) THEN n
    ELSE IF ~IsDigit(str[i]) THEN -1
    ELSE IF n * 10 + DigitVal(str[i]) > limit THEN -2
    ELSE ParseDigits(str, i + 1, n * 10 + DigitVal(str[i]), limit)

\* strconv.Atoi: optional sign, then at least one digit, within the range of
\* int (IntMax stands for math.MaxInt).
Atoi(str) ==
    LET signed == Len(str) > 0 /\ str[1] \in {"+", "-"}
        neg == Len(str) > 0 /\ str[1] = "-"
        body == IF signed THEN SubSeq(str, 2, Len(str)) ELSE str
        n == ParseDigits(body, 1, 0, IF neg THEN IntMax + 1 ELSE IntMax)
    IN  IF Len(body) = 0 \/ n < 0
        THEN [err |-> TRUE, val |-> 0]
        ELSE [err |-> FALSE, val |-> IF neg THEN 0 - n ELSE n]

\* (*big.Int).SetString(s, 10): optional sign, then at least one digit; no
\* range limit.
RECURSIVE BigDigits(_, _, _)
BigDigits(str, i, n) ==
    IF i > Len(str) THEN n
    ELSE IF ~IsDigit(str[i]) THEN -1
    ELSE BigDigits(str, i + 1, n * 10 + DigitVal(str[i]))

SetString(str) ==
    LET signed == Len(str) > 0 /\ str[1] \in {"+", "-"}
        neg == Len(str) > 0 /\ str[1] = "-"
        body == IF signed THEN SubSeq(str, 2, Len(str)) ELSE str
        n == BigDigits(body, 1, 0)
    IN  IF Len(body) = 0 \/ n < 0
        THEN [ok |-> FALSE, val |-> 0]
        ELSE [ok |-> TRUE, val |-> IF neg THEN 0 - n ELSE n]

StepValues == {<<"0">>, <<"x">>}

(***************************************************************************)
(* Event logs as getLogs returns them, and getVaultId.                     *)
(***************************************************************************)
NilDecoded == [t |-> "nil"]
Payload(k, v) == [t |-> "map", m |-> [x \in {k} |-> v]]

LogValues ==
    { [Contract |-> "Cdpmanager", Decoded |-> Payload("Cdp", <<"7">>)],
      [Contract |-> "Cdpmanager", Decoded |-> Payload("Cdp", <<"4", "2">>)],
      [Contract |-> "Cdpmanager", Decoded |-> Payload("Usr", <<"1">>)],
      [Contract |-> "Cdpmanager", Decoded |-> Payload("Cdp", <<"x">>)],
      [Contract |-> "Cdpmanager", Decoded |-> NilDecoded],
      [Contract |-> "Vat", Decoded |-> Payload("Cdp", <<"9">>)] }

LogLists == SeqsUpTo(LogValues, MaxLogs)

RECURSIVE getVaultIdFrom_LastLog(_, _)
getVaultIdFrom_LastLog(ls, i) ==
    IF i > Len(ls) THEN [err |-> "", val |-> 0]
    ELSE IF ls[i].Contract = "Cdpmanager"
            /\ \A j \in (i + 1)..Len(ls) : ls[j].Contract # "Cdpmanager"
    THEN IF ls[i].Decoded.t = "nil"
         THEN [err |-> "panic", val |-> 0]
         ELSE IF "Cdp" \notin DOMAIN ls[i].Decoded.m
         THEN [err |-> "failed to get vault id from log", val |-> 0]
         ELSE IF Atoi(ls[i].Decoded.m["Cdp"]).err
         THEN [err |-> "failed to convert vault id to int", val |-> 0]
         ELSE [err |-> "", val |-> Atoi(ls[i].Decoded.m["Cdp"]).val]
    ELSE getVaultIdFrom_LastLog(ls, i + 1)

RECURSIVE getVaultIdFrom(_, _)
getVaultIdFrom(ls, i) ==
    IF i > Len(ls) THEN [err |-> "", val |-> 0]
    ELSE IF ls[i].Contract = "Cdpmanager"
    THEN IF ls[i].Decoded.t = "nil"
         THEN [err |-> "panic", val |-> 0]
         ELSE IF "Cdp" \notin DOMAIN ls[i].Decoded.m
         THEN [err |-> "failed to get vault id from log", val |-> 0]
         ELSE IF Atoi(ls[i].Decoded.m["Cdp"]).err
         THEN [err |-> "failed to convert vault id to int", val |-> 0]
         ELSE [err |-> "", val |-> Atoi(ls[i].Decoded.m["Cdp"]).val]
    ELSE getVaultIdFrom(ls, i + 1)

getVaultId(ls) == getVaultIdFrom(ls, 1)

(***************************************************************************)
(* The transaction log file: absent, holding a JSON array of entries, or   *)
(* holding bytes that do not decode as one (an empty or truncated file     *)
(* included).  `io` is how the file system behaves during the call.        *)
(***************************************************************************)
JsonFile(es) == [st |-> "json", entries |-> es]
CorruptFile == [st |-> "corrupt"]

\* A file of other bytes that do not decode as an array; CorruptFile is what
\* os.Create or a failed write leaves.
GarbledFile == [st |-> "corrupt", bytes |-> "garbled"]

TransactionDetails(tx, h, id) == [Tx |-> tx, TxHash |-> h, VaultID |-> id]

SaveIO == {"ok", "openfail", "createfail", "writefail"}

SaveTransactionDetails(f, tx, h, id, io) ==
    LET transactionData == TransactionDetails(tx, h, id)
        existingData == IF f.st = "json" THEN f.entries ELSE <<>>
    IN  IF f.st # "absent" /\ io = "openfail" THEN [err |-> TRUE, file |-> f]
        ELSE IF f.st = "corrupt" THEN [err |-> TRUE, file |-> f]
        ELSE IF io = "createfail" THEN [err |-> TRUE, file |-> f]
        ELSE IF io = "writefail" THEN [err |-> TRUE, file |-> CorruptFile]
        ELSE [err |-> FALSE, file |-> JsonFile(Append(existingData, transactionData))]

OldEntry == TransactionDetails([value |-> 0, nonce |-> 0], 99, 5)

InitialFiles == {AbsentFile, JsonFile(<<OldEntry>>), CorruptFile}

loopVars == <<numOfSteps, stepNumber, s>>
iterVars == <<plan, numberOf, stepNumberIn, steps, number>>
txVars == <<txHash, txToSave>>
world == <<chain, file>>
logVars == <<logs, vaultId, logsHash>>
ghosts == <<iters, init0, coop, confirmed, sent, sentInIter, submitted, timeouts, outcome>>

\* log.Fatalf, or a panic: the process exits and its variables are gone; the
\* chain and the log file stay as they are.
Exit(reason) ==
    /\ pc' = "fatal"
    /\ why' = reason
    /\ numOfSteps' = 0 /\ stepNumber' = 0 /\ s' = 0
    /\ plan' = NoPlan /\ numberOf' = 0 /\ stepNumberIn' = 0 /\ steps' = <<>>
    /\ number' = 0
    /\ txHash' = 0 /\ txToSave' = NoTx
    /\ logs' = <<>> /\ vaultId' = 0 /\ logsHash' = 0
    /\ UNCHANGED <<flow, world, nonExecutor>>

Fatal(reason) == Exit(reason) /\ UNCHANGED ghosts

\* The remote side advanced the current step by one per confirmed step.
Advanced(p) ==
    /\ p.NumberOfSteps = init0.NumberOfSteps
    /\ p.StepNumber = init0.StepNumber + confirmed

\* ethClient.SendTransaction accepted the signed transaction for the step
\* at the given position.
Broadcast(step) ==
    /\ chain' = Append(chain, [hash |-> Len(chain) + 1, tx |-> txToSave])
    /\ txHash' = Len(chain) + 1
    /\ sent' = [iter |-> iters, step |-> step, planStep |-> plan.StepNumber]
    /\ sentInIter' = sentInIter + 1
    /\ submitted' = submitted \cup {step}

(***************************************************************************)
(* CreateVaultExample                                                      *)
(***************************************************************************)
CreateStart ==
    /\ flow = "create"
    /\ pc = "start"
    /\ \/ Fatal("getVaultTxSteps")
       \/ \E p \in Plans :
            /\ plan' = p
            /\ init0' = p
            /\ numOfSteps' = p.NumberOfSteps
            /\ stepNumber' = p.StepNumber
            /\ steps' = StepsOf(p)
            /\ s' = 0
            /\ pc' = "outer"
            /\ UNCHANGED <<flow, why, numberOf, stepNumberIn, number, txVars, world,
                           logVars, iters, coop, confirmed, sent, sentInIter, submitted,
                           timeouts, outcome, nonExecutor>>

CreateOuter_OffByOne ==
    /\ flow = "create"
    /\ pc = "outer"
    /\ pc' = IF s < numOfSteps - stepNumber THEN "poll" ELSE "done"
    /\ UNCHANGED <<flow, why, loopVars, iterVars, txVars, world, logVars, ghosts, nonExecutor>>

CreateOuter ==
    /\ flow = "create"
    /\ pc = "outer"
    /\ pc' = IF s <= numOfSteps - stepNumber THEN "poll" ELSE "done"
    /\ UNCHANGED <<flow, why, loopVars, iterVars, txVars, world, logVars, ghosts, nonExecutor>>

CreatePoll ==
    /\ flow = "create"
    /\ pc = "poll"
    /\ \/ Fatal("getVaultTxSteps")
       \/ \E p \in Plans :
            /\ plan' = p
            /\ numberOf' = p.NumberOfSteps
            /\ stepNumberIn' = p.StepNumber
            /\ steps' = StepsOf(p)
            /\ txHash' = 0
            /\ number' = 0
            /\ iters' = iters + 1
            /\ coop' = (coop /\ Advanced(p))
            /\ sentInIter' = 0
            /\ pc' = "inner"
            /\ UNCHANGED <<flow, why, loopVars, txToSave, world, logVars, init0,
                           confirmed, sent, submitted, timeouts, outcome, nonExecutor>>

CreateInner_OuterStepNumber ==
    /\ flow = "create"
    /\ pc = "inner"
    /\ IF number < Len(steps)
       THEN \/ Fatal("AsPreparedTx")
            \/ /\ IF stepNumber - 1 = number
                  THEN pc' = "prepare" /\ number' = number
                  ELSE pc' = "inner" /\ number' = number + 1
               /\ UNCHANGED <<flow, why, loopVars, plan, numberOf, stepNumberIn, steps,
                              txVars, world, logVars, ghosts, nonExecutor>>
       ELSE /\ pc' = "after"
            /\ UNCHANGED <<flow, why, loopVars, iterVars, txVars, world, logVars, ghosts,
                           nonExecutor>>

CreateInner ==
    /\ flow = "create"
    /\ pc = "inner"
    /\ IF number < Len(steps)
       THEN \/ Fatal("AsPreparedTx")
            \/ /\ IF stepNumberIn - 1 = number
                  THEN pc' = "prepare" /\ number' = number
                  ELSE pc' = "inner" /\ number' = number + 1
               /\ UNCHANGED <<flow, why, loopVars, plan, numberOf, stepNumberIn, steps,
                              txVars, world, logVars, ghosts, nonExecutor>>
       ELSE /\ pc' = "after"
            /\ UNCHANGED <<flow, why, loopVars, iterVars, txVars, world, logVars, ghosts,
                           nonExecutor>>

CreatePrepare ==
    /\ flow = "create"
    /\ pc = "prepare"
    /\ \E valueStr \in StepValues :
         IF Atoi(valueStr).err
         THEN Fatal("Atoi")
         ELSE \/ Fatal("PendingNonceAt")
              \/ Fatal("SuggestGasPrice")
              \/ Fatal("SignTx")
              \/ /\ txToSave' = [value |-> Atoi(valueStr).val, nonce |-> Len(chain)]
                 /\ pc' = "send"
                 /\ UNCHANGED <<flow, why, loopVars, iterVars, txHash, world, logVars,
                                ghosts, nonExecutor>>

CreateSend_RetriesOnError ==
    /\ flow = "create"
    /\ pc = "send"
    /\ \/ /\ why' = "SendTransaction"
          /\ pc' = "send"
          /\ UNCHANGED <<flow, loopVars, iterVars, txVars, world, logVars, ghosts,
                         nonExecutor>>
       \/ /\ Broadcast(number + 1)
          /\ pc' = "save"
          /\ UNCHANGED <<flow, why, loopVars, iterVars, txToSave, file, logVars, iters,
                         init0, coop, confirmed, timeouts, outcome, nonExecutor>>

CreateSend ==
    /\ flow = "create"
    /\ pc = "send"
    /\ \/ Fatal("SendTransaction")
       \/ /\ Broadcast(number + 1)
          /\ pc' = "save"
          /\ UNCHANGED <<flow, why, loopVars, iterVars, txToSave, file, logVars, iters,
                         init0, coop, confirmed, timeouts, outcome, nonExecutor>>

CreateSave_WaitsAnyway ==
    /\ flow = "create"
    /\ pc = "save"
    /\ \E io \in SaveIO :
         LET r == SaveTransactionDetails(file, txToSave, txHash, -1, io)
         IN  /\ file' = r.file
             /\ pc' = "wait"
             /\ why' = why
    /\ UNCHANGED <<flow, loopVars, iterVars, txVars, chain, logVars, ghosts, nonExecutor>>

CreateSave_KnownVaultId ==
    /\ flow = "create"
    /\ pc = "save"
    /\ \E io \in SaveIO :
         LET r == SaveTransactionDetails(file, txToSave, txHash, vaultId, io)
         IN  /\ file' = r.file
             /\ pc' = IF r.err THEN "fatal" ELSE "wait"
             /\ why' = IF r.err THEN "SaveTransactionDetails" ELSE why
    /\ UNCHANGED <<flow, loopVars, iterVars, txVars, chain, logVars, ghosts, nonExecutor>>

CreateSave ==
    /\ flow = "create"
    /\ pc = "save"
    /\ \E io \in SaveIO :
         LET r == SaveTransactionDetails(file, txToSave, txHash, -1, io)
         IN  /\ file' = r.file
             /\ pc' = IF r.err THEN "fatal" ELSE "wait"
             /\ why' = IF r.err THEN "SaveTransactionDetails" ELSE why
    /\ UNCHANGED <<flow, loopVars, iterVars, txVars, chain, logVars, ghosts, nonExecutor>>

\* The wait ended without a receipt (line 708) or with a receipt of status 0
\* (line 712): log.Fatalf.
WaitFailed(reason) ==
    /\ Exit(reason)
    /\ outcome' = reason
    /\ timeouts' = IF reason = "timeout" THEN timeouts + 1 ELSE timeouts
    /\ UNCHANGED <<iters, init0, coop, confirmed, sent, sentInIter, submitted>>

CreateWait_ContinuesOnTimeout ==
    /\ flow = "create"
    /\ pc = "wait"
    /\ \/ /\ outcome' = "timeout"
          /\ timeouts' = timeouts + 1
          /\ number' = number + 1
          /\ pc' = "inner"
          /\ UNCHANGED <<flow, why, loopVars, plan, numberOf, stepNumberIn, steps, txVars,
                         world, logVars, iters, init0, coop, confirmed, sent, sentInIter,
                         submitted, nonExecutor>>
       \/ WaitFailed("reverted")
       \/ /\ confirmed' = confirmed + 1
          /\ outcome' = "success"
          /\ number' = number + 1
          /\ pc' = "inner"
          /\ UNCHANGED <<flow, why, loopVars, plan, numberOf, stepNumberIn, steps, txVars,
                         world, logVars, iters, init0, coop, sent, sentInIter, submitted,
                         timeouts, nonExecutor>>

CreateWait ==
    /\ flow = "create"
    /\ pc = "wait"
    /\ \/ WaitFailed("timeout")
       \/ WaitFailed("reverted")
       \/ /\ confirmed' = confirmed + 1
          /\ outcome' = "success"
          /\ number' = number + 1
          /\ pc' = "inner"
          /\ UNCHANGED <<flow, why, loopVars, plan, numberOf, stepNumberIn, steps, txVars,
                         world, logVars, iters, init0, coop, sent, sentInIter, submitted,
                         timeouts, nonExecutor>>

CreateAfter_InitialPlan ==
    /\ flow = "create"
    /\ pc = "after"
    /\ IF numOfSteps = stepNumber
       THEN pc' = "logs" /\ s' = s
       ELSE pc' = "outer" /\ s' = s + 1
    /\ UNCHANGED <<flow, why, numOfSteps, stepNumber, iterVars, txVars, world, logVars,
                   ghosts, nonExecutor>>

CreateAfter ==
    /\ flow = "create"
    /\ pc = "after"
    /\ IF numberOf = stepNumberIn
       THEN pc' = "logs" /\ s' = s
       ELSE pc' = "outer" /\ s' = s + 1
    /\ UNCHANGED <<flow, why, numOfSteps, stepNumber, iterVars, txVars, world, logVars,
                   ghosts, nonExecutor>>

CreateGetLogs ==
    /\ flow = "create"
    /\ pc = "logs"
    /\ \/ Fatal("getLogs")
       \/ \E ls \in LogLists :
            IF getVaultId(ls).err # ""
            THEN Fatal("getVaultId")
            ELSE /\ logsHash' = txHash
                 /\ logs' = ls
                 /\ vaultId' = getVaultId(ls).val
                 /\ pc' = "patch"
                 /\ UNCHANGED <<flow, why, loopVars, iterVars, txVars, world, ghosts, nonExecutor>>

PatchIO == {"ok", "readfail", "writefail"}

PatchLastVaultId_EveryEntry(f, id, io) ==
    IF f.st = "absent" \/ io = "readfail" THEN [err |-> TRUE, file |-> f]
    ELSE IF f.st = "corrupt" THEN [err |-> TRUE, file |-> f]
    ELSE IF io = "writefail" THEN [err |-> TRUE, file |-> CorruptFile]
    ELSE [err |-> FALSE,
          file |-> JsonFile([i \in 1..Len(f.entries) |->
                                [f.entries[i] EXCEPT !.VaultID = id]])]

\* The read-modify-write of lines 737-767.
PatchLastVaultId(f, id, io) ==
    IF f.st = "absent" \/ io = "readfail" THEN [err |-> TRUE, file |-> f]
    ELSE IF f.st = "corrupt" THEN [err |-> TRUE, file |-> f]
    ELSE IF io = "writefail" THEN [err |-> TRUE, file |-> CorruptFile]
    ELSE [err |-> FALSE,
          file |-> JsonFile(IF Len(f.entries) > 0
                            THEN [f.entries EXCEPT ![Len(f.entries)].VaultID = id]
                            ELSE f.entries)]

CreatePatch ==
    /\ flow = "create"
    /\ pc = "patch"
    /\ \E io \in PatchIO :
         LET r == PatchLastVaultId(file, vaultId, io)
         IN  /\ file' = r.file
             /\ pc' = IF r.err THEN "fatal" ELSE "outer"
             /\ why' = IF r.err THEN "patch" ELSE why
             /\ s' = IF r.err THEN s ELSE s + 1
             /\ logs' = IF r.err THEN logs ELSE <<>>
             /\ vaultId' = IF r.err THEN vaultId ELSE 0
    /\ UNCHANGED <<flow, numOfSteps, stepNumber, iterVars, txVars, chain, logsHash, ghosts,
                   nonExecutor>>

(***************************************************************************)
(* VaultDebtRepayExample                                                   *)
(***************************************************************************)
VAULT_ID == 0

RepayStart ==
    /\ flow = "repay"
    /\ pc = "start"
    /\ \/ Fatal("getVaultTxSteps")
       \/ \E p \in Plans :
            /\ plan' = p
            /\ init0' = p
            /\ numOfSteps' = p.NumberOfSteps
            /\ stepNumber' = p.StepNumber
            /\ steps' = StepsOf(p)
            /\ s' = 0
            /\ pc' = "outer"
            /\ UNCHANGED <<flow, why, numberOf, stepNumberIn, number, txVars, world,
                           logVars, iters, coop, confirmed, sent, sentInIter, submitted,
                           timeouts, outcome, nonExecutor>>

RepayOuter ==
    /\ flow = "repay"
    /\ pc = "outer"
    /\ pc' = IF s <= numOfSteps - stepNumber THEN "poll" ELSE "done"
    /\ UNCHANGED <<flow, why, loopVars, iterVars, txVars, world, logVars, ghosts, nonExecutor>>

RepayPoll ==
    /\ flow = "repay"
    /\ pc = "poll"
    /\ \/ Fatal("getVaultTxSteps")
       \/ \E p \in Plans :
            /\ plan' = p
            /\ numOfSteps' = p.NumberOfSteps
            /\ stepNumber' = p.StepNumber
            /\ steps' = StepsOf(p)
            /\ txHash' = 0
            /\ number' = 0
            /\ iters' = iters + 1
            /\ coop' = (coop /\ Advanced(p))
            /\ sentInIter' = 0
            /\ pc' = "inner"
            /\ UNCHANGED <<flow, why, s, numberOf, stepNumberIn, txToSave, world, logVars,
                           init0, confirmed, sent, submitted, timeouts, outcome, nonExecutor>>

RepayInner ==
    /\ flow = "repay"
    /\ pc = "inner"
    /\ IF number < Len(steps)
       THEN \/ Fatal("AsPreparedTx")
            \/ /\ IF stepNumber - 1 = number
                  THEN pc' = "prepare" /\ number' = number
                  ELSE pc' = "inner" /\ number' = number + 1
               /\ UNCHANGED <<flow, why, loopVars, plan, numberOf, stepNumberIn, steps,
                              txVars, world, logVars, ghosts, nonExecutor>>
       ELSE /\ pc' = "outer"
            /\ s' = s + 1
            /\ UNCHANGED <<flow, why, numOfSteps, stepNumber, iterVars, txVars, world,
                           logVars, ghosts, nonExecutor>>

RepayPrepare ==
    /\ flow = "repay"
    /\ pc = "prepare"
    /\ \E valueStr \in StepValues :
         IF ~SetString(valueStr).ok
         THEN Fatal("SetString")
         ELSE \/ Fatal("PendingNonceAt")
              \/ Fatal("SuggestGasPrice")
              \/ Fatal("hexutil.Decode")
              \/ Fatal("SignTx")
              \/ /\ txToSave' = [value |-> SetString(valueStr).val, nonce |-> Len(chain)]
                 /\ pc' = "send"
                 /\ UNCHANGED <<flow, why, loopVars, iterVars, txHash, world, logVars,
                                ghosts, nonExecutor>>

RepaySend ==
    /\ flow = "repay"
    /\ pc = "send"
    /\ \/ Fatal("SendTransaction")
       \/ /\ Broadcast(number + 1)
          /\ pc' = "save"
          /\ UNCHANGED <<flow, why, loopVars, iterVars, txToSave, file, logVars, iters,
                         init0, coop, confirmed, timeouts, outcome, nonExecutor>>

RepaySave ==
    /\ flow = "repay"
    /\ pc = "save"
    /\ \E io \in SaveIO :
         LET r == SaveTransactionDetails(file, txToSave, txHash, VAULT_ID, io)
         IN  /\ file' = r.file
             /\ pc' = IF r.err THEN "fatal" ELSE "wait"
             /\ why' = IF r.err THEN "SaveTransactionDetails" ELSE why
    /\ UNCHANGED <<flow, loopVars, iterVars, txVars, chain, logVars, ghosts, nonExecutor>>

RepayWait_FatalOnTimeout ==
    /\ flow = "repay"
    /\ pc = "wait"
    /\ \/ WaitFailed("timeout")
       \/ \E o \in {"reverted", "success"} :
            /\ outcome' = o
            /\ confirmed' = IF o = "success" THEN confirmed + 1 ELSE confirmed
            /\ number' = number + 1
            /\ pc' = "inner"
            /\ UNCHANGED <<flow, why, loopVars, plan, numberOf, stepNumberIn, steps,
                           txVars, world, logVars, iters, init0, coop, sent, sentInIter,
                           submitted, timeouts, nonExecutor>>

\* A timeout is logged and the inner loop continues; a receipt is reported
\* as mined whatever its status.
RepayWait ==
    /\ flow = "repay"
    /\ pc = "wait"
    /\ \E o \in {"timeout", "reverted", "success"} :
         /\ outcome' = o
         /\ timeouts' = IF o = "timeout" THEN timeouts + 1 ELSE timeouts
         /\ confirmed' = IF o = "success" THEN confirmed + 1 ELSE confirmed
    /\ number' = number + 1
    /\ pc' = "inner"
    /\ UNCHANGED <<flow, why, loopVars, plan, numberOf, stepNumberIn, steps, txVars, world,
                   logVars, iters, init0, coop, sent, sentInIter, submitted, nonExecutor>>

NextExecutor ==
    \/ CreateStart \/ CreateOuter \/ CreatePoll \/ CreateInner \/ CreatePrepare
    \/ CreateSend \/ CreateSave \/ CreateWait \/ CreateAfter \/ CreateGetLogs
    \/ CreatePatch
    \/ RepayStart \/ RepayOuter \/ RepayPoll \/ RepayInner \/ RepayPrepare
    \/ RepaySend \/ RepaySave \/ RepayWait

InitExecutor ==
    /\ resp = NilResponse
    /\ result = NotCalled
    /\ flow \in {"create", "repay"}
    /\ pc = "start"
    /\ why = ""
    /\ numOfSteps = 0
    /\ stepNumber = 0
    /\ s = 0
    /\ plan = NoPlan
    /\ numberOf = 0
    /\ stepNumberIn = 0
    /\ steps = <<>>
    /\ number = 0
    /\ txHash = 0
    /\ txToSave = NoTx
    /\ chain = <<>>
    /\ file \in InitialFiles
    /\ logs = <<>>
    /\ vaultId = 0
    /\ logsHash = 0
    /\ iters = 0
    /\ init0 = NoPlan
    /\ coop = TRUE
    /\ confirmed = 0
    /\ sent = NoSent
    /\ sentInIter = 0
    /\ submitted = {}
    /\ timeouts = 0
    /\ outcome = "none"
    /\ AppendersIdle
    /\ WaitIdle
    /\ NativeIdle
    /\ LoanIdle
    /\ ValueIdle

SpecExecutor == InitExecutor /\ [][NextExecutor]_vars

(***************************************************************************)
(* SaveTransactionDetails step by step, called by several processes on one *)
(* log file.  The calls of one process follow each other; nothing but the  *)
(* file survives from one call to the next, so a process that makes its    *)
(* next call may as well be a restarted one.                               *)
(*   Open   os.Open                      line 503                          *)
(*   Decode decoder.Decode               lines 506-509                     *)
(*   Create os.Create, which truncates   lines 518-521                     *)
(*   Encode encoder.Encode               lines 524-528                     *)
(* Each process writes through its own descriptor from offset 0, so the    *)
(* JSON value at the head of the file is the one of the latest Encode.     *)
(***************************************************************************)
MaxAppends == 2

EntriesOf(f) == IF f.st = "json" THEN f.entries ELSE <<>>

\* The steps of the other processes are what makes a call overlapped.
Overlaps(p) ==
    [q \in Procs |-> IF q # p /\ apc[q] # "idle" THEN TRUE ELSE overlapped[q]]

Return(p, e) ==
    /\ apc' = [apc EXCEPT ![p] = "idle"]
    /\ aerr' = [aerr EXCEPT ![p] = e]

logFrame == <<cvars, wvars, nvars, rvars, vvars, flow, pc, why, numOfSteps, stepNumber, s, plan, numberOf, stepNumberIn,
              steps, number, txHash, txToSave, chain, logs, vaultId, logsHash, iters, init0,
              coop, confirmed, sent, sentInIter, submitted, timeouts, outcome>>

AppendOpen(p) ==
    /\ apc[p] = "idle"
    /\ calls < MaxAppends
    /\ calls' = calls + 1
    /\ transactionDataOf' =
         [transactionDataOf EXCEPT
            ![p] = TransactionDetails([value |-> 0, nonce |-> calls], 100 + calls, -1)]
    /\ atCall' = [atCall EXCEPT ![p] = EntriesOf(file)]
    /\ overlapped' = [Overlaps(p) EXCEPT ![p] = FALSE]
    /\ existingDataOf' = [existingDataOf EXCEPT ![p] = <<>>]
    /\ \/ /\ file.st = "absent"
          /\ apc' = [apc EXCEPT ![p] = "read"]
          /\ aerr' = [aerr EXCEPT ![p] = "none"]
       \/ /\ file.st # "absent"
          /\ \/ /\ apc' = [apc EXCEPT ![p] = "opened"]
                /\ aerr' = [aerr EXCEPT ![p] = "none"]
             \/ Return(p, "failed to open")
    /\ UNCHANGED <<file, raced, acked, file0, logFrame>>

AppendDecode_TruncatesOnError(p) ==
    /\ apc[p] = "opened"
    /\ overlapped' = Overlaps(p)
    /\ IF file.st = "json"
       THEN /\ existingDataOf' = [existingDataOf EXCEPT ![p] = file.entries]
            /\ apc' = [apc EXCEPT ![p] = "read"]
            /\ aerr' = aerr
            /\ file' = file
       ELSE /\ Return(p, "failed to decode")
            /\ existingDataOf' = existingDataOf
            /\ file' = CorruptFile
    /\ UNCHANGED <<transactionDataOf, atCall, raced, acked, calls, file0, logFrame>>

AppendDecode(p) ==
    /\ apc[p] = "opened"
    /\ overlapped' = Overlaps(p)
    /\ IF file.st = "json"
       THEN /\ existingDataOf' = [existingDataOf EXCEPT ![p] = file.entries]
            /\ apc' = [apc EXCEPT ![p] = "read"]
            /\ aerr' = aerr
       ELSE /\ Return(p, "failed to decode")
            /\ existingDataOf' = existingDataOf
    /\ UNCHANGED <<file, transactionDataOf, atCall, raced, acked, calls, file0, logFrame>>

AppendCreate(p) ==
    /\ apc[p] = "read"
    /\ overlapped' = Overlaps(p)
    /\ \/ /\ file' = CorruptFile
          /\ apc' = [apc EXCEPT ![p] = "created"]
          /\ aerr' = aerr
       \/ /\ Return(p, "failed to create")
          /\ file' = file
    /\ UNCHANGED <<existingDataOf, transactionDataOf, atCall, raced, acked, calls, file0,
                   logFrame>>

AppendEncode_RereadsFile(p) ==
    /\ apc[p] = "created"
    /\ overlapped' = Overlaps(p)
    /\ raced' = (raced \/ overlapped[p])
    /\ \/ /\ file' = JsonFile(Append(IF file.st = "json" THEN file.entries
                                      ELSE existingDataOf[p],
                                     transactionDataOf[p]))
          /\ acked' = Append(acked, transactionDataOf[p])
          /\ Return(p, "nil")
       \/ /\ file' = CorruptFile
          /\ acked' = acked
          /\ Return(p, "failed to write")
    /\ UNCHANGED <<existingDataOf, transactionDataOf, atCall, calls, file0, logFrame>>

AppendEncode_DropsExisting(p) ==
    /\ apc[p] = "created"
    /\ overlapped' = Overlaps(p)
    /\ raced' = (raced \/ overlapped[p])
    /\ \/ /\ file' = JsonFile(<<transactionDataOf[p]>>)
          /\ acked' = Append(acked, transactionDataOf[p])
          /\ Return(p, "nil")
       \/ /\ file' = CorruptFile
          /\ acked' = acked
          /\ Return(p, "failed to write")
    /\ UNCHANGED <<existingDataOf, transactionDataOf, atCall, calls, file0, logFrame>>

AppendEncode(p) ==
    /\ apc[p] = "created"
    /\ overlapped' = Overlaps(p)
    /\ raced' = (raced \/ overlapped[p])
    /\ \/ /\ file' = JsonFile(Append(existingDataOf[p], transactionDataOf[p]))
          /\ acked' = Append(acked, transactionDataOf[p])
          /\ Return(p, "nil")
       \/ /\ file' = CorruptFile
          /\ acked' = acked
          /\ Return(p, "failed to write")
    /\ UNCHANGED <<existingDataOf, transactionDataOf, atCall, calls, file0, logFrame>>

NextLog ==
    \E p \in Procs :
        \/ AppendOpen(p)
        \/ AppendDecode(p)
        \/ AppendCreate(p)
        \/ AppendEncode(p)

InitLog ==
    /\ resp = NilResponse
    /\ result = NotCalled
    /\ flow = "none"
    /\ pc = "idle"
    /\ why = ""
    /\ numOfSteps = 0
    /\ stepNumber = 0
    /\ s = 0
    /\ plan = NoPlan
    /\ numberOf = 0
    /\ stepNumberIn = 0
    /\ steps = <<>>
    /\ number = 0
    /\ txHash = 0
    /\ txToSave = NoTx
    /\ chain = <<>>
    /\ file \in InitialFiles \cup {GarbledFile}
    /\ logs = <<>>
    /\ vaultId = 0
    /\ logsHash = 0
    /\ iters = 0
    /\ init0 = NoPlan
    /\ coop = TRUE
    /\ confirmed = 0
    /\ sent = NoSent
    /\ sentInIter = 0
    /\ submitted = {}
    /\ timeouts = 0
    /\ outcome = "none"
    /\ apc = [p \in Procs |-> "idle"]
    /\ aerr = [p \in Procs |-> "none"]
    /\ existingDataOf = [p \in Procs |-> <<>>]
    /\ transactionDataOf = [p \in Procs |-> NoTx]
    /\ atCall = [p \in Procs |-> <<>>]
    /\ overlapped = [p \in Procs |-> FALSE]
    /\ raced = FALSE
    /\ acked = <<>>
    /\ calls = 0
    /\ file0 = EntriesOf(file)
    /\ WaitIdle
    /\ NativeIdle
    /\ LoanIdle
    /\ ValueIdle

SpecLog == InitLog /\ [][NextLog]_vars

(***************************************************************************)
(* waitForTransactionReceipt (lines 534-556 and 960-982).  Time is counted *)
(* in ticks.  A call of TransactionReceipt takes up to MaxLatency ticks:   *)
(* it is a network round trip made with context.Background().  time.Sleep  *)
(* is taken to last exactly checkInterval.                                 *)
(***************************************************************************)
MaxWait == 6
MaxInterval == 3
MaxLatency == 2

waitFrame == <<cvars, evars, avars, nvars, rvars, vvars>>

\* The loop condition time.Since(startTime) < maxWaitTime.
WaitCheck ==
    /\ wpc = "check"
    /\ IF elapsed < maxWaitTime
       THEN wpc' = "poll" /\ wret' = wret
       ELSE wpc' = "returned" /\ wret' = "timeout"
    /\ UNCHANGED <<maxWaitTime, checkInterval, elapsed, polls, pollOutcomes, waitFrame>>

\* The errors of client.TransactionReceipt: ethereum.NotFound, or any other.
PollErrors == {"notfound", "rpcerror"}

WaitPoll_AbortsOnRPCError ==
    /\ wpc = "poll"
    /\ \E d \in 0..MaxLatency : elapsed' = elapsed + d
    /\ polls' = polls + 1
    /\ \/ /\ wpc' = "returned" /\ wret' = "receipt"
          /\ pollOutcomes' = Append(pollOutcomes, "receipt")
       \/ /\ wpc' = "sleep" /\ wret' = wret
          /\ pollOutcomes' = Append(pollOutcomes, "notfound")
       \/ /\ wpc' = "returned" /\ wret' = "error"
          /\ pollOutcomes' = Append(pollOutcomes, "rpcerror")
    /\ UNCHANGED <<maxWaitTime, checkInterval, waitFrame>>

\* client.TransactionReceipt: a receipt (err == nil), or an error, which is
\* ethereum.NotFound or any other.
WaitPoll ==
    /\ wpc = "poll"
    /\ \E d \in 0..MaxLatency : elapsed' = elapsed + d
    /\ polls' = polls + 1
    /\ \/ /\ wpc' = "returned" /\ wret' = "receipt"
          /\ pollOutcomes' = Append(pollOutcomes, "receipt")
       \/ /\ wpc' = "sleep" /\ wret' = wret
          /\ \E e \in PollErrors : pollOutcomes' = Append(pollOutcomes, e)
    /\ UNCHANGED <<maxWaitTime, checkInterval, waitFrame>>

WaitSleep ==
    /\ wpc = "sleep"
    /\ elapsed' = elapsed + checkInterval
    /\ wpc' = "check"
    /\ UNCHANGED <<maxWaitTime, checkInterval, polls, wret, pollOutcomes, waitFrame>>

NextWait == WaitCheck \/ WaitPoll \/ WaitSleep

InitWait ==
    /\ resp = NilResponse
    /\ result = NotCalled
    /\ ExecutorIdle
    /\ AppendersIdle
    /\ NativeIdle
    /\ LoanIdle
    /\ ValueIdle
    /\ wpc = "check"
    /\ maxWaitTime \in (0 - 1)..MaxWait
    /\ checkInterval \in 1..MaxInterval
    /\ elapsed = 0
    /\ polls = 0
    /\ wret = "none"
    /\ pollOutcomes = <<>>

SpecWait == InitWait /\ [][NextWait]_vars

(***************************************************************************)
(* toNative (lines 331-366 and 819-835).                                   *)
(*                                                                         *)
(* The amount is a float64.  The caller's decimal amount, units / 10^frac, *)
(* reaches the function as the nearest float64.  A float is written        *)
(* [m, k] and has the value m / 2^k (k may be negative).  FloatPrec stands *)
(* for the 53 bits of a float64 mantissa and Decimals for the 18 of the    *)
(* precision map; like 10^18 in 53 bits, 10^Decimals is exact in           *)
(* FloatPrec bits.                                                         *)
(***************************************************************************)
FloatPrec == 8
Decimals == 2
MaxUnits == 1500

RECURSIVE Pow(_, _)
Pow(b, n) == IF n = 0 THEN 1 ELSE b * Pow(b, n - 1)

RECURSIVE BitLen(_)
BitLen(n) == IF n = 0 THEN 0 ELSE 1 + BitLen(n \div 2)

\* n / d rounded to the nearest integer, ties to even.
RoundHalfEven(n, d) ==
    LET q == n \div d
        r == n % d
    IN  IF 2 * r > d \/ (2 * r = d /\ q % 2 = 1) THEN q + 1 ELSE q

\* The least k with units * 2^k / 10^frac >= 2^(FloatPrec - 1).
RECURSIVE MantissaShift(_, _, _)
MantissaShift(units, frac, k) ==
    IF units * Pow(2, k) >= Pow(2, FloatPrec - 1) * Pow(10, frac) THEN k
    ELSE MantissaShift(units, frac, k + 1)

\* The least j with units / (10^frac * 2^j) < 2^FloatPrec.
RECURSIVE MantissaShiftDown(_, _, _)
MantissaShiftDown(units, frac, j) ==
    IF units < Pow(2, FloatPrec) * Pow(10, frac) * Pow(2, j) THEN j
    ELSE MantissaShiftDown(units, frac, j + 1)

\* The float64 nearest to units / 10^frac.
Float64Of(units, frac) ==
    IF units = 0 THEN [m |-> 0, k |-> 0]
    ELSE IF units >= Pow(2, FloatPrec) * Pow(10, frac)
    THEN LET j == MantissaShiftDown(units, frac, 1)
         IN  [m |-> RoundHalfEven(units, Pow(10, frac) * Pow(2, j)), k |-> 0 - j]
    ELSE LET k == MantissaShift(units, frac, 0)
         IN  [m |-> RoundHalfEven(units * Pow(2, k), Pow(10, frac)), k |-> k]

\* floatAmount.Mul(floatAmount, scale): the product rounded to the precision
\* of floatAmount, which SetFloat64 set to that of a float64.
MulScale(x, p) ==
    LET n == x.m * Pow(10, p)
        sh == BitLen(n) - FloatPrec
    IN  IF sh <= 0 THEN [m |-> n, k |-> x.k]
        ELSE [m |-> RoundHalfEven(n, Pow(2, sh)), k |-> x.k - sh]

\* (*big.Float).Int: the value truncated, and whether that was exact.
FloatInt(x) ==
    IF x.k <= 0 THEN [int |-> x.m * Pow(2, 0 - x.k), exact |-> TRUE]
    ELSE [int |-> x.m \div Pow(2, x.k), exact |-> x.m % Pow(2, x.k) = 0]

\* (*big.Int).String of a non-negative integer.
RECURSIVE IntString(_)
IntString(n) ==
    IF n < 10 THEN <<DigitChars[n + 1]>>
    ELSE Append(IntString(n \div 10), DigitChars[(n % 10) + 1])

NativeError(msg) == [kind |-> "error", msg |-> msg]

Scaled(amount, p) ==
    LET i == FloatInt(MulScale(amount, p))
    IN  IF ~i.exact THEN NativeError("lost precision during conversion")
        ELSE [kind |-> "ok", val |-> IntString(i.int)]

IlksResults == {[ok |-> FALSE, symbols |-> {}], [ok |-> TRUE, symbols |-> {"ETHA"}]}

Symbols == {"ZAR", "ETHA", "DOGE"}

Precision(a) == [sym \in {"ZAR"} \cup a.ilks.symbols |-> Decimals]

toNative(a) ==
    IF a.variant = "repay" THEN Scaled(Float64Of(a.units, a.frac), Decimals)
    ELSE IF ~a.ilks.ok THEN NativeError("failed to get symbols")
    ELSE IF a.symbol \notin DOMAIN Precision(a) THEN NativeError("unknown symbol")
    ELSE Scaled(Float64Of(a.units, a.frac), Precision(a)[a.symbol])

ToNativeCalls ==
    [variant : {"create"}, ilks : IlksResults, symbol : Symbols,
     units : 0..MaxUnits, frac : 0..(Decimals + 1)]
    \cup
    [variant : {"repay"}, ilks : {[ok |-> TRUE, symbols |-> {}]}, symbol : {"ZAR"},
     units : 0..MaxUnits, frac : 0..(Decimals + 1)]

CallToNative ==
    /\ toNativeRet.kind = "none"
    /\ toNativeRet' = toNative(toNativeArgs)
    /\ UNCHANGED <<toNativeArgs, cvars, evars, avars, wvars, rvars, vvars>>

NextNative == CallToNative

InitNative ==
    /\ resp = NilResponse
    /\ result = NotCalled
    /\ ExecutorIdle
    /\ AppendersIdle
    /\ WaitIdle
    /\ LoanIdle
    /\ ValueIdle
    /\ toNativeArgs \in ToNativeCalls
    /\ toNativeRet = [kind |-> "none"]

SpecNative == InitNative /\ [][NextNative]_vars

(***************************************************************************)
(* RepayLoanExample: preview, confirmation at the prompt, repayment and    *)
(* the status loop.                                                        *)
(***************************************************************************)
MaxPolls == 3

LOAN_ID == "DAIA#2825"

\* The ids a LoansResponse can carry.
LoanIds == {LOAN_ID, "DAIA#1"}

\* The lines the operator can type, as their whitespace-separated tokens.
Answers == {<<>>, <<"y">>, <<"n">>, <<"Y">>, <<"yes">>, <<"y", "n">>}

\* fmt.Scanln(&confirm): the first token of the line is stored; an empty
\* line stores nothing, and the error of either case is dropped.
Scanln(line) == IF line = <<>> THEN "" ELSE Head(line)

\* The outcomes of client call plus HandleAPIResponse.
CallOutcomes == {"ok", "apierror", "transport"}

\* loanDetails.State["LocaleEn"] of a successful status call; "" when the
\* map has no such key.
LoanStates == {"Loan settled", "Loan settlement failed", "Loan in progress", ""}

StatusOutcomes == LoanStates \cup {"apierror", "transport"}

loanFrame == <<cvars, evars, avars, wvars, nvars, vvars>>

repayLoan(loanId, intent, out) ==
    [loan |-> loanId, intent |-> intent, result |-> out]

\* Where a helper's outcome leaves the example: log.Fatalf ends the process,
\* an error of HandleAPIResponse makes the example return.
AfterCall(out, next) ==
    CASE out = "transport" -> "fatal"
      [] out = "apierror" -> "done"
      [] OTHER -> next

LoanNewClient ==
    /\ lpc = "start"
    /\ lpc' \in {"preview", "fatal"}
    /\ UNCHANGED <<requests, answer, confirm, statusId, polled, slept, loanFrame>>

LoanPreview ==
    /\ lpc = "preview"
    /\ \E out \in CallOutcomes :
         /\ requests' = Append(requests, repayLoan(LOAN_ID, "preview", out))
         /\ lpc' = AfterCall(out, "confirm")
    /\ UNCHANGED <<answer, confirm, statusId, polled, slept, loanFrame>>

LoanConfirm_UnlessNo ==
    /\ lpc = "confirm"
    /\ confirm' = Scanln(answer)
    /\ lpc' = IF confirm' # "n" THEN "repay" ELSE "cancelled"
    /\ UNCHANGED <<requests, answer, statusId, polled, slept, loanFrame>>

LoanConfirm ==
    /\ lpc = "confirm"
    /\ confirm' = Scanln(answer)
    /\ lpc' = IF confirm' = "y" THEN "repay" ELSE "cancelled"
    /\ UNCHANGED <<requests, answer, statusId, polled, slept, loanFrame>>

LoanRepay ==
    /\ lpc = "repay"
    /\ \E out \in CallOutcomes, id \in LoanIds :
         /\ requests' = Append(requests, repayLoan(LOAN_ID, "repay", out))
         /\ lpc' = AfterCall(out, "poll")
         /\ statusId' = IF out = "ok" THEN id ELSE statusId
    /\ UNCHANGED <<answer, confirm, polled, slept, loanFrame>>

LoanPoll_GivesUp ==
    /\ lpc = "poll"
    /\ Len(polled) < MaxPolls
    /\ \E out \in StatusOutcomes :
         /\ polled' = Append(polled, out)
         /\ lpc' = CASE out = "Loan settled" -> "final"
                     [] out = "Loan settlement failed" -> "done"
                     [] Len(polled) >= 1 -> "done"
                     [] OTHER -> AfterCall(out, "sleep")
    /\ UNCHANGED <<requests, answer, confirm, statusId, slept, loanFrame>>

LoanPoll ==
    /\ lpc = "poll"
    /\ Len(polled) < MaxPolls
    /\ \E out \in StatusOutcomes :
         /\ polled' = Append(polled, out)
         /\ lpc' = CASE out = "Loan settled" -> "final"
                     [] out = "Loan settlement failed" -> "done"
                     [] OTHER -> AfterCall(out, "sleep")
    /\ UNCHANGED <<requests, answer, confirm, statusId, slept, loanFrame>>

LoanSleep ==
    /\ lpc = "sleep"
    /\ slept' = slept + 1
    /\ lpc' = "poll"
    /\ UNCHANGED <<requests, answer, confirm, statusId, polled, loanFrame>>

\* The status call made after "Loan settled", whose result is dropped.
LoanFinal ==
    /\ lpc = "final"
    /\ \E out \in CallOutcomes : lpc' = IF out = "transport" THEN "fatal" ELSE "done"
    /\ UNCHANGED <<requests, answer, confirm, statusId, polled, slept, loanFrame>>

NextLoan ==
    \/ LoanNewClient
    \/ LoanPreview
    \/ LoanConfirm
    \/ LoanRepay
    \/ LoanPoll
    \/ LoanSleep
    \/ LoanFinal

InitLoan ==
    /\ resp = NilResponse
    /\ result = NotCalled
    /\ ExecutorIdle
    /\ AppendersIdle
    /\ WaitIdle
    /\ NativeIdle
    /\ ValueIdle
    /\ lpc = "start"
    /\ requests = <<>>
    /\ answer \in Answers
    /\ confirm = ""
    /\ statusId = ""
    /\ polled = <<>>
    /\ slept = 0

SpecLoan == InitLoan /\ [][NextLoan]_vars

(***************************************************************************)
(* The value of a prepared transaction on its way into the transaction     *)
(* that is signed and the one that is logged.                              *)
(***************************************************************************)
MaxDigits == 3

ValueDigits == {"0", "1", "2", "7", "8", "9"}

\* methodParams.Value of a step: a decimal string of a non-negative integer.
ValueTexts == SeqsUpTo(ValueDigits, MaxDigits) \ {<<>>}

valueFrame == <<cvars, evars, avars, wvars, nvars, rvars>>

\* CreateVaultExample: strconv.Atoi into an int, which is the logged Value
\* and, through big.NewInt(int64(value)), the signed one.
ConvertCreate ==
    /\ valueRet.kind = "none"
    /\ valueRet' = IF Atoi(valueText).err
                   THEN [kind |-> "create", fatal |-> TRUE, signed |-> 0, logged |-> 0]
                   ELSE [kind |-> "create", fatal |-> FALSE,
                         signed |-> Atoi(valueText).val, logged |-> Atoi(valueText).val]
    /\ UNCHANGED <<valueText, valueFrame>>

\* VaultDebtRepayExample: (*big.Int).SetString, the same big.Int signed and
\* logged.
ConvertRepay ==
    /\ valueRet.kind = "none"
    /\ valueRet' = IF ~SetString(valueText).ok
                   THEN [kind |-> "repay", fatal |-> TRUE, signed |-> 0, logged |-> 0]
                   ELSE [kind |-> "repay", fatal |-> FALSE,
                         signed |-> SetString(valueText).val,
                         logged |-> SetString(valueText).val]
    /\ UNCHANGED <<valueText, valueFrame>>

NextValue == ConvertCreate \/ ConvertRepay

InitValue ==
    /\ resp = NilResponse
    /\ result = NotCalled
    /\ ExecutorIdle
    /\ AppendersIdle
    /\ WaitIdle
    /\ NativeIdle
    /\ LoanIdle
    /\ valueText \in ValueTexts
    /\ valueRet = [kind |-> "none"]

SpecValue == InitValue /\ [][NextValue]_vars

(***************************************************************************)
(* Shapes of a body, read off the JSON document.                           *)
(***************************************************************************)
Readable(r) == ~r.nil /\ r.body.top # "readerror"

Called == result.kind # "none"

MatchesUserError(b) ==
    /\ b.top = "object"
    /\ b.messages.t = "map"
    /\ DOMAIN b.messages.m # {}
    /\ \A l \in DOMAIN b.messages.m : EntryDecodes(b.messages.m[l])

MatchesGenericError(b) ==
    /\ b.top = "object"
    /\ b.msg.t = "str"
    /\ b.msg.s # ""
    /\ b.reasons.t # "bad"

WellFormedSuccess(b) ==
    \/ b.top = "null"
    \/ b.top = "object" /\ b.data.t # "bad"

\* C1: a response with status in [200,300) whose body decodes as the success
\* type makes the classifier return no error and fill the success value with
\* the decoded body.
C1_SuccessDecoded ==
    (Called /\ Readable(resp) /\ resp.status >= 200 /\ resp.status < 300
        /\ WellFormedSuccess(resp.body))
    => /\ result.kind = "ok"
       /\ result.success.Data =
            (IF resp.body.top = "object" /\ resp.body.data.t = "str"
             THEN resp.body.data.s ELSE "")

C1_Witness ==
    /\ result.kind = "ok"
    /\ result.variant = "service"
    /\ resp.status = 200
    /\ result.success.Data = "d1"

\* C2: a response with status >= 300 whose body matches the UserError shape
\* with at least one locale yields a UserError whose details hold exactly
\* the body's locales, each with its own message and solutions.
C2_UserErrorLocales ==
    (Called /\ Readable(resp) /\ resp.status >= 300 /\ MatchesUserError(resp.body))
    => /\ result.kind = "APIError"
       /\ result.Message = "User error"
       /\ result.Details.t = "UserError"
       /\ DOMAIN result.Details.v.Messages = DOMAIN resp.body.messages.m
       /\ \A l \in DOMAIN resp.body.messages.m :
            /\ result.Details.v.Messages[l].UserMessage =
                 StrField(resp.body.messages.m[l].userMessage)
            /\ result.Details.v.Messages[l].Solutions =
                 ListField(resp.body.messages.m[l].solutions)

C2_Witness ==
    /\ result.kind = "APIError"
    /\ result.variant = "service"
    /\ resp.status >= 300
    /\ result.Details.t = "UserError"
    /\ Cardinality(DOMAIN result.Details.v.Messages) = 1
    /\ \E l \in DOMAIN result.Details.v.Messages :
         result.Details.v.Messages[l].Solutions = <<"s1", "s2">>

\* C3: a response with status >= 300 whose body matches the GenericError
\* shape with a non-empty msg, and not the UserError shape, yields an error
\* carrying that msg and the whole reasons list in its original order.
C3_GenericErrorCarried ==
    (Called /\ Readable(resp) /\ resp.status >= 300
        /\ ~MatchesUserError(resp.body) /\ MatchesGenericError(resp.body))
    => /\ result.kind = "APIError"
       /\ result.Details.t = "Error"
       /\ result.Details.v.Msg = resp.body.msg.s
       /\ result.Details.v.Reasons = ListField(resp.body.reasons)

C3_Witness ==
    /\ result.kind = "APIError"
    /\ result.variant = "service"
    /\ resp.status >= 300
    /\ result.Details.t = "Error"
    /\ result.Details.v.Msg = "boom"
    /\ result.Details.v.Reasons = <<>>
    /\ resp.body.reasons.t = "absent"

\* C4: a non-success response whose body matches neither the UserError shape
\* nor the GenericError shape yields an UnhandledError whose details are the
\* raw body bytes as text.
C4_UnhandledRawBody ==
    (Called /\ Readable(resp) /\ ~(resp.status >= 200 /\ resp.status < 300)
        /\ ~MatchesUserError(resp.body) /\ ~MatchesGenericError(resp.body))
    => /\ result.kind = "APIError"
       /\ result.Message = "Unhandled error"
       /\ result.Details = RawDetails(resp.body)

C4_Witness ==
    /\ result.kind = "APIError"
    /\ result.variant = "service"
    /\ resp.body.top = "invalid"
    /\ result.Details = RawDetails(resp.body)

\* C5: a non-success body is classified in the order UserError, GenericError,
\* Unhandled: a body with a non-empty messages mapping and a non-empty msg is
\* a UserError, and the error has exactly one of the three kinds.
C5_ClassificationOrder ==
    (Called /\ Readable(resp) /\ ~(resp.status >= 200 /\ resp.status < 300))
    => /\ result.kind = "APIError"
       /\ result.Details.t \in {"UserError", "Error", "string"}
       /\ result.Details.t = "UserError" <=> MatchesUserError(resp.body)
       /\ result.Details.t = "Error" <=>
            (~MatchesUserError(resp.body) /\ MatchesGenericError(resp.body))
       /\ result.Details.t = "string" <=>
            (~MatchesUserError(resp.body) /\ ~MatchesGenericError(resp.body))

C5_Witness ==
    /\ result.kind = "APIError"
    /\ result.variant = "service"
    /\ MatchesUserError(resp.body)
    /\ MatchesGenericError(resp.body)
    /\ result.Details.t = "UserError"

\* C6: every error the service classifier returns carries the request id, path and
\* method of the request when they are available, and a response without
\* X-Request-ID header or without attached request still yields a classified
\* error value, not a failure of the classifier.
C6_MetadataOrStillClassified ==
    (Called /\ ~resp.nil /\ result.variant = "service")
    => /\ result.kind # "panic"
       /\ result.kind \in {"APIError", "error"} =>
            /\ "RequestID" \in DOMAIN result
            /\ result.RequestID = resp.requestID
            /\ resp.request.attached =>
                 /\ result.Path = resp.request.path
                 /\ result.Method = resp.request.method

\* C7: in every outer iteration at most one transaction is submitted, and it
\* is the step at position StepNumber of the plan that iteration's own poll
\* returned; no step at another position is ever submitted.
C7_OnlyCurrentStepSubmitted ==
    /\ [](sentInIter <= 1 /\ sent.step = sent.planStep)
    /\ [][chain' # chain =>
            /\ Len(chain') = Len(chain) + 1
            /\ sent'.iter = iters
            /\ sent'.planStep = plan.StepNumber
            /\ submitted' = submitted \cup {plan.StepNumber}]_vars

C7_Witness ==
    /\ pc = "done"
    /\ init0 = [NumberOfSteps |-> 2, StepNumber |-> 1]
    /\ Len(chain) = 2
    /\ submitted = {1, 2}
    /\ iters = 2
    /\ sent = [iter |-> 2, step |-> 2, planStep |-> 2]

(***************************************************************************)
(* A measure of the work the vault-creation flow has left: the outer       *)
(* iterations still to run, then the position inside the iteration.        *)
(***************************************************************************)
IterationCost == 5 * (MaxSteps + 1) + 10

CreateLeft == init0.NumberOfSteps - init0.StepNumber + 1 - s

CreateRank ==
    CASE pc = "start" -> (MaxSteps + 1) * IterationCost
      [] pc = "outer" -> CreateLeft * IterationCost + IterationCost - 1
      [] pc = "poll" -> CreateLeft * IterationCost + IterationCost - 2
      [] pc = "inner" -> CreateLeft * IterationCost + IterationCost - 3 - 5 * number
      [] pc = "prepare" -> CreateLeft * IterationCost + IterationCost - 4 - 5 * number
      [] pc = "send" -> CreateLeft * IterationCost + IterationCost - 5 - 5 * number
      [] pc = "save" -> CreateLeft * IterationCost + IterationCost - 6 - 5 * number
      [] pc = "wait" -> CreateLeft * IterationCost + IterationCost - 7 - 5 * number
      [] pc = "after" -> CreateLeft * IterationCost + 2
      [] pc = "logs" -> CreateLeft * IterationCost + 1
      [] pc = "patch" -> CreateLeft * IterationCost
      [] OTHER -> 0 - IterationCost

\* C8: a run of the vault-creation flow that no fatal error aborts performs
\* exactly NumberOfSteps - StepNumber + 1 outer iterations, both taken from
\* the poll before the loop, whatever the later polls return; the loop ends:
\* the number of iterations never exceeds that count and every step of the
\* flow lowers the work left.
C8_CreateIterations ==
    /\ []((flow = "create" /\ pc = "done")
            => iters = init0.NumberOfSteps - init0.StepNumber + 1)
    /\ []((flow = "create" /\ pc \notin {"start", "fatal"})
            => iters <= init0.NumberOfSteps - init0.StepNumber + 1)
    /\ [][flow = "create" => CreateRank' < CreateRank]_vars

C8_Witness ==
    /\ flow = "create"
    /\ pc = "done"
    /\ init0 = [NumberOfSteps |-> 3, StepNumber |-> 2]
    /\ iters = 2
    /\ ~coop

\* C9: a run of the vault-repayment flow that no fatal error aborts performs
\* exactly NumberOfSteps - StepNumber + 1 outer iterations, both taken from
\* the poll before the loop, so that, the remote side advancing the current
\* step by one per confirmed step, every step from the initial one through
\* the last is submitted before the loop ends.
C9_RepayIterations ==
    (flow = "repay" /\ pc = "done" /\ coop /\ timeouts = 0 /\ confirmed = Len(chain))
    => /\ iters = init0.NumberOfSteps - init0.StepNumber + 1
       /\ submitted = init0.StepNumber..init0.NumberOfSteps

(***************************************************************************)
(* The vault id the event logs of the final transaction denote.            *)
(***************************************************************************)
HasIssuerLog(ls) == \E i \in DOMAIN ls : ls[i].Contract = "Cdpmanager"

FirstIssuerLog(ls) ==
    ls[CHOOSE i \in DOMAIN ls :
         /\ ls[i].Contract = "Cdpmanager"
         /\ \A j \in 1..(i - 1) : ls[j].Contract # "Cdpmanager"]

CdpNumber(str) == IF str = <<"7">> THEN 7 ELSE IF str = <<"4", "2">> THEN 42 ELSE -1

VaultIdChanged ==
    /\ file.st = "json"
    /\ file'.st = "json"
    /\ \E i \in DOMAIN file.entries :
         i <= Len(file'.entries) /\ file'.entries[i].VaultID # file.entries[i].VaultID

\* C10: in the vault-creation flow, an iteration whose poll returns
\* StepNumber = NumberOfSteps fetches, after its transaction is confirmed,
\* the event logs of that transaction's hash, takes the vault id from the log
\* of the Cdpmanager contract and sets the VaultID of the last log entry to
\* it; an iteration with StepNumber < NumberOfSteps patches no entry.
C10_PatchOnFinalStep ==
    [][flow = "create" =>
        /\ (pc = "after" /\ plan.StepNumber = plan.NumberOfSteps) => pc' = "logs"
        /\ (pc = "after" /\ plan.StepNumber < plan.NumberOfSteps)
              => (pc' = "outer" /\ file' = file)
        /\ (pc = "logs" /\ pc' = "patch")
              => /\ logsHash' = txHash
                 /\ txHash = chain[Len(chain)].hash
                 /\ sent.iter = iters
                 /\ confirmed = Len(chain)
                 /\ HasIssuerLog(logs')
                      => vaultId' = CdpNumber(FirstIssuerLog(logs').Decoded.m["Cdp"])
        /\ (pc = "patch" /\ pc' = "outer")
              => /\ file.entries[Len(file.entries)].TxHash = txHash
                 /\ file'.entries =
                      [file.entries EXCEPT ![Len(file.entries)].VaultID = vaultId]
        /\ VaultIdChanged => (pc = "patch" /\ plan.StepNumber = plan.NumberOfSteps)
    ]_vars

C10_Witness ==
    /\ flow = "create"
    /\ pc = "done"
    /\ file.st = "json"
    /\ Len(file.entries) = 2
    /\ file.entries[1].VaultID = -1
    /\ file.entries[2].VaultID = 42
    /\ file.entries[2].TxHash = txHash
    /\ plan.StepNumber = plan.NumberOfSteps

\* C11: in the vault-creation flow a confirmation timeout of the submitted
\* step ends the run: the timing-out wait itself and every later step leave
\* the number of polls, the broadcast transactions and the log file as they
\* are.
C11_CreateTimeoutFatal ==
    /\ [][(flow = "create" /\ timeouts' > timeouts)
            => (pc' = "fatal" /\ iters' = iters /\ chain' = chain /\ file' = file)]_vars
    /\ [][(flow = "create" /\ timeouts > 0)
            => (iters' = iters /\ chain' = chain /\ file' = file)]_vars
    /\ []((flow = "create" /\ timeouts > 0) => pc = "fatal")

C11_Witness ==
    /\ flow = "create"
    /\ pc = "fatal"
    /\ why = "timeout"
    /\ timeouts = 1
    /\ iters = 2
    /\ Len(chain) = 2
    /\ file.st = "json"

\* C12: in the vault-repayment flow a confirmation timeout does not end the
\* run: the wait that timed out hands over to the rest of the inner loop with
\* the loop state intact, the run never stops for a timeout, and the outer
\* loop polls the plan again while iterations remain.
C12_RepayTimeoutContinues ==
    /\ [][(flow = "repay" /\ timeouts' > timeouts)
            => (pc' = "inner" /\ number' = number + 1 /\ UNCHANGED <<loopVars, world>>)]_vars
    /\ [][(flow = "repay" /\ timeouts > 0 /\ pc = "outer"
            /\ s <= numOfSteps - stepNumber) => pc' = "poll"]_vars
    /\ [](flow = "repay" => why # "timeout")

C12_Witness ==
    /\ flow = "repay"
    /\ pc = "prepare"
    /\ timeouts = 1
    /\ outcome = "timeout"
    /\ iters = 2
    /\ sent.iter = 1
    /\ Len(chain) = 1

\* C13: in both flows a receipt with status 0 for the submitted step ends the
\* run: the wait that got it stops the executor, and no poll or broadcast
\* follows it.
C13_RevertedIsFatal ==
    /\ [][(pc = "wait" /\ pc' # "wait" /\ outcome' = "reverted") => pc' = "fatal"]_vars
    /\ [][(outcome = "reverted") => (iters' = iters /\ chain' = chain)]_vars

RPCFailures == {"PendingNonceAt", "SuggestGasPrice", "SignTx", "SendTransaction"}

\* C14: in both flows an RPC error while resolving the nonce or the gas
\* price, signing or broadcasting ends the run: the failing call broadcast
\* nothing and wrote no log entry, and afterwards nothing is polled,
\* broadcast or written.
C14_RPCErrorFatal ==
    /\ [](why \in RPCFailures => pc = "fatal")
    /\ [][(why' \in RPCFailures /\ why' # why)
            => (pc \in {"prepare", "send"} /\ chain' = chain /\ file' = file)]_vars
    /\ [][(why \in RPCFailures)
            => (iters' = iters /\ chain' = chain /\ file' = file)]_vars

C14_Witness ==
    /\ pc = "fatal"
    /\ why = "SendTransaction"
    /\ iters = 2
    /\ Len(chain) = 1
    /\ file.st = "json"
    /\ Len(file.entries) = 1

Completes(p) == apc[p] = "created" /\ apc'[p] = "idle" /\ aerr'[p] = "nil"

\* C15: a call of SaveTransactionDetails that returns nil and that no other
\* process's call overlapped leaves the file holding the entries it held at
\* the call, unchanged and in order, followed by the new entry; so a file
\* that only saw such calls holds its first entries followed by the entries
\* of all the calls that returned nil, in the order of the calls.
C15_AppendRoundTrip ==
    /\ [][\A p \in Procs :
            (Completes(p) /\ ~overlapped[p])
            => (/\ file'.st = "json"
                /\ file'.entries = Append(atCall[p], transactionDataOf[p])
                /\ Len(file'.entries) = Len(atCall[p]) + 1
                /\ file'.entries[Len(file'.entries)] = transactionDataOf[p]
                /\ SubSeq(file'.entries, 1, Len(atCall[p])) = atCall[p])]_vars
    /\ []((~raced /\ file.st = "json") => file.entries = file0 \o acked)

C15_Witness ==
    /\ file0 = <<OldEntry>>
    /\ ~raced
    /\ Len(acked) = 2
    /\ \A p \in Procs : apc[p] = "idle" /\ aerr[p] = "nil" /\ ~overlapped[p]
    /\ file.st = "json"
    /\ Len(file.entries) = 3
    /\ file.entries[3] = transactionDataOf[2]

\* C16: a patch that succeeds leaves the file with as many entries as before,
\* every entry but the last one unchanged, and the last one changed in its
\* VaultID only, which is the id found in the logs.
C16_PatchFrame ==
    [][(pc = "patch" /\ pc' = "outer")
        => (/\ file.st = "json"
            /\ file'.st = "json"
            /\ Len(file'.entries) = Len(file.entries)
            /\ \A i \in 1..(Len(file.entries) - 1) : file'.entries[i] = file.entries[i]
            /\ Len(file.entries) > 0
                => file'.entries[Len(file.entries)] =
                     [file.entries[Len(file.entries)] EXCEPT !.VaultID = vaultId])]_vars

C16_Witness ==
    /\ flow = "create"
    /\ pc = "outer"
    /\ file.st = "json"
    /\ Len(file.entries) = 2
    /\ file.entries[1] = OldEntry
    /\ file.entries[2] = TransactionDetails(txToSave, txHash, 7)
    /\ logsHash = txHash
    /\ txHash = 1

Holds(e) == file.st = "json" /\ \E i \in 1..Len(file.entries) : file.entries[i] = e

BothSucceeded(p, q) ==
    /\ p # q
    /\ apc[p] = "idle" /\ aerr[p] = "nil"
    /\ apc[q] = "idle" /\ aerr[q] = "nil"

\* C17: two processes whose calls of SaveTransactionDetails both read the
\* same entries and both return nil lose an update: the file cannot hold the
\* entries of both calls, it holds the one written last.
C17_LostUpdate ==
    \A p, q \in Procs :
        (BothSucceeded(p, q) /\ existingDataOf[p] = existingDataOf[q])
        => ~(Holds(transactionDataOf[p]) /\ Holds(transactionDataOf[q]))

C17_Witness ==
    /\ BothSucceeded(1, 2)
    /\ existingDataOf[1] = <<OldEntry>>
    /\ existingDataOf[2] = <<OldEntry>>
    /\ file = JsonFile(<<OldEntry, transactionDataOf[2]>>)
    /\ ~Holds(transactionDataOf[1])
    /\ acked = <<transactionDataOf[1], transactionDataOf[2]>>

\* C18: a call of waitForTransactionReceipt that returns the timeout error
\* returns no earlier than maxWaitTime and no later than maxWaitTime +
\* checkInterval after it started.
C18_TimeoutWithinBounds ==
    wret = "timeout"
    => (elapsed >= maxWaitTime /\ elapsed <= maxWaitTime + checkInterval)

Converted ==
    /\ toNativeRet.kind # "none"
    /\ toNativeArgs.variant = "create"
        => (toNativeArgs.ilks.ok
            /\ toNativeArgs.symbol \in {"ZAR"} \cup toNativeArgs.ilks.symbols)

\* The decimal amount times 10^Decimals is an integer.
ScaledIsInteger ==
    (toNativeArgs.units * Pow(10, Decimals)) % Pow(10, toNativeArgs.frac) = 0

\* C19: for an amount with at most Decimals fractional digits toNative
\* returns the decimal string of amount * 10^Decimals, exactly.
C19_ExactScaling ==
    (Converted /\ ScaledIsInteger)
    => toNativeRet =
         [kind |-> "ok",
          val |-> IntString((toNativeArgs.units * Pow(10, Decimals))
                              \div Pow(10, toNativeArgs.frac))]

\* C20: for an amount whose product with 10^Decimals is not an integer
\* toNative returns the precision-loss error and no amount.
C20_PrecisionLossReported ==
    (Converted /\ ~ScaledIsInteger)
    => toNativeRet = NativeError("lost precision during conversion")


(***************************************************************************)
(* RepayLoanExample.                                                       *)
(***************************************************************************)
RepaySent == {i \in 1..Len(requests) : requests[i].intent = "repay"}

PreviewOk(i) ==
    /\ requests[i].intent = "preview"
    /\ requests[i].result = "ok"

Stopping == {"Loan settled", "Loan settlement failed", "apierror", "transport"}

Last(q) == q[Len(q)]

\* C30: after a successful Repay the loop asks for the loan status, sleeps
\* one second after every poll that neither failed nor showed "Loan settled"
\* or "Loan settlement failed" and then polls again, and leaves only on the
\* first poll that did; nothing else bounds the number of polls.
C30_StatusLoopUnbounded ==
    /\ [][/\ (lpc = "poll" /\ lpc' # "poll") =>
                (/\ polled' = Append(polled, Last(polled'))
                 /\ lpc' = "sleep" <=> Last(polled') \notin Stopping)
          /\ (lpc = "sleep") => (lpc' = "poll" /\ slept' = slept + 1)]_vars
    /\ [](/\ \A i \in 1..(Len(polled) - 1) : polled[i] \notin Stopping
          /\ (polled # <<>> /\ lpc \in {"final", "done", "fatal"}) => Last(polled) \in Stopping
          /\ (lpc = "poll") => slept = Len(polled)
          /\ (polled # <<>>) => (Last(requests).intent = "repay" /\ Last(requests).result = "ok"))

C30_Witness ==
    /\ Len(polled) = 3
    /\ \A i \in 1..3 : polled[i] = "Loan in progress"
    /\ lpc = "sleep"


\* C22: a response with status in [200,300) whose body does not decode as
\* the success type makes the classifier return the "failed to parse success
\* response" error: the body is not classified as UserError, GenericError or
\* Unhandled, whatever shape it has, and no success value is returned.
C22_MalformedSuccessBody ==
    (Called /\ Readable(resp) /\ resp.status >= 200 /\ resp.status < 300
        /\ ~WellFormedSuccess(resp.body))
    => /\ result.kind \in {"APIError", "error"}
       /\ result.Message = "failed to parse success response"
       /\ result.kind = "APIError" =>
            (result.StatusCode = resp.status /\ result.Details = ErrTextDetails)

C22_Witness ==
    /\ result.kind = "APIError"
    /\ result.variant = "service"
    /\ resp.status = 200
    /\ MatchesUserError(resp.body)
    /\ resp.body.data.t = "bad"
    /\ result.Message = "failed to parse success response"


\* The StatusCode the service classifier's error is to carry: the response's
\* status once the body was read, 500 otherwise.
ExpectedStatusCode(r) == IF Readable(r) THEN r.status ELSE 500

\* C26: the service classifier returns no error exactly when the response is
\* non-nil, its status is in [200,300) and its body decodes; for every other
\* input it returns an APIError whose StatusCode is the response's status
\* when the body was read, and 500 for a nil response or a failed read.
C26_NilIffSuccess ==
    (Called /\ result.variant = "service")
    => /\ result.kind = "ok" <=>
            (/\ Readable(resp)
             /\ resp.status >= 200 /\ resp.status < 300
             /\ WellFormedSuccess(resp.body))
       /\ result.kind # "ok" =>
            (result.kind = "APIError" /\ result.StatusCode = ExpectedStatusCode(resp))


(***************************************************************************)
(* The order of broadcast, log entry and wait.                             *)
(***************************************************************************)
Entries(f) == IF f.st = "json" THEN f.entries ELSE <<>>

Appended == Len(Entries(file')) = Len(Entries(file)) + 1

\* C23: the executor broadcasts, appends the log entry, then waits: an entry
\* is appended only for the transaction whose broadcast just succeeded, and
\* the wait starts only from the append, with that entry written.
C23_BroadcastLogWait ==
    [][/\ (chain' # chain) => (pc = "send" /\ pc' = "save" /\ file' = file)
       /\ Appended =>
            (/\ pc = "save"
             /\ chain # <<>>
             /\ Last(Entries(file')).TxHash = Last(chain).hash
             /\ Last(Entries(file')).Tx = Last(chain).tx
             /\ sent.iter = iters)
       /\ (pc # "wait" /\ pc' = "wait") =>
            (/\ pc = "save"
             /\ Appended
             /\ chain' = chain
             /\ Last(Entries(file')).TxHash = txHash)]_vars

C23_Witness ==
    /\ flow = "repay"
    /\ pc = "wait"
    /\ Len(chain) = 2
    /\ Len(Entries(file)) = 3
    /\ Last(Entries(file)).TxHash = 2

\* The entries the run itself appended carry the hash of a broadcast.
AppendedInRun(f) ==
    {i \in 1..Len(Entries(f)) : Entries(f)[i].TxHash \in 1..Len(chain)}

\* C24: in the vault-creation flow every entry is appended with VaultID -1;
\* a VaultID changes only in the patch of an iteration whose plan is at its
\* final step, and then only that of the last entry, which is the entry the
\* iteration appended; every other entry is left as it is by every step, so
\* that, the remote side advancing one step per confirmed step, all entries
\* of the run but the last have VaultID -1 in every state.
C24_EarlierEntriesKeepMinusOne ==
    /\ [][flow = "create" =>
            /\ Appended => Last(Entries(file')).VaultID = -1
            /\ (file.st = "json" /\ file'.st = "json") =>
                 /\ Len(file'.entries) >= Len(file.entries)
                 /\ \A i \in 1..(Len(file.entries) - 1) : file'.entries[i] = file.entries[i]
                 /\ Appended => file'.entries[Len(file.entries)] = file.entries[Len(file.entries)]
            /\ VaultIdChanged =>
                 /\ pc = "patch"
                 /\ plan.StepNumber = plan.NumberOfSteps
                 /\ sent.iter = iters
                 /\ Last(file.entries).TxHash = txHash
                 /\ Last(file.entries).VaultID = -1]_vars
    /\ []((flow = "create" /\ coop) =>
            \A i \in AppendedInRun(file) : i < Len(Entries(file)) => Entries(file)[i].VaultID = -1)

C24_Witness ==
    /\ flow = "create"
    /\ pc = "done"
    /\ Len(Entries(file)) = 3
    /\ AppendedInRun(file) = {2, 3}
    /\ file.entries[2].VaultID = -1
    /\ file.entries[3].VaultID = 7

\* The id getVaultId is to return for a list of logs.
FirstCdp(ls) ==
    IF ~HasIssuerLog(ls) THEN 0
    ELSE LET d == FirstIssuerLog(ls).Decoded
         IN  IF d.t = "map" /\ "Cdp" \in DOMAIN d.m THEN CdpNumber(d.m["Cdp"]) ELSE -1

\* C28: getVaultId returns the integer Cdp of the first Cdpmanager log
\* whatever the later logs hold, and 0 without error when no log is from
\* that contract, in which case the patch sets the last entry's VaultID
\* from -1 to 0.
C28_FirstIssuerLogOrZero ==
    /\ [][(flow = "create" /\ pc = "logs" /\ pc' = "patch")
            => (vaultId' = FirstCdp(logs') /\ vaultId' >= 0)]_vars
    /\ [][(flow = "create" /\ pc = "patch" /\ pc' = "outer" /\ ~HasIssuerLog(logs))
            => (/\ Last(file.entries).VaultID = -1
                /\ Last(file'.entries).VaultID = 0)]_vars

C28_Witness ==
    /\ flow = "create"
    /\ pc = "patch"
    /\ logs = << [Contract |-> "Cdpmanager", Decoded |-> Payload("Cdp", <<"4", "2">>)],
                 [Contract |-> "Cdpmanager", Decoded |-> Payload("Cdp", <<"7">>)] >>
    /\ vaultId = 42


\* The integer a string of decimal digits denotes.
RECURSIVE Denoted(_)
Denoted(str) ==
    IF str = <<>> THEN 0
    ELSE 10 * Denoted(SubSeq(str, 1, Len(str) - 1)) + DigitVal(str[Len(str)])

\* C25: the value signed and the value logged equal the integer the
\* prepared transaction's decimal string denotes, for every non-negative
\* integer, those above the range of int included; none is rejected.
C25_ValueOfAnySize ==
    (valueRet.kind # "none")
    => /\ ~valueRet.fatal
       /\ valueRet.signed = Denoted(valueText)
       /\ valueRet.logged = Denoted(valueText)


OpenOrDecodeFailed == {"failed to open", "failed to decode"}

\* C27: a call of SaveTransactionDetails that finds the file present but not
\* decoding as an array, or cannot open it though it is present, returns
\* that error, and none of its steps changes the file: it is neither
\* truncated nor rewritten.
C27_UndecodableFileUntouched ==
    [][\A p \in Procs :
        /\ (apc[p] = "idle" /\ apc'[p] = "opened") => (file.st # "absent" /\ file' = file)
        /\ (apc[p] = "opened" /\ apc'[p] # "opened" /\ file.st # "json")
              => (apc'[p] = "idle" /\ aerr'[p] = "failed to decode" /\ file' = file)
        /\ (apc'[p] = "idle" /\ aerr'[p] \in OpenOrDecodeFailed
               /\ (apc[p] # "idle" \/ calls' # calls))
              => (apc[p] \in {"idle", "opened"} /\ file' = file /\ acked' = acked)]_vars

C27_Witness ==
    /\ file = GarbledFile
    /\ calls = 2
    /\ \E p \in Procs : apc[p] = "idle" /\ aerr[p] = "failed to decode"
    /\ \E p \in Procs : apc[p] = "idle" /\ aerr[p] = "failed to open"


\* C29: waitForTransactionReceipt returns the receipt of the first poll that
\* succeeds; a poll that fails, with not-found or with any other error, is
\* followed by a sleep of checkInterval and, while the elapsed time is below
\* maxWaitTime, by another poll; with maxWaitTime <= 0 the function polls
\* not once and returns the timeout error.
C29_FailedPollNeverAborts ==
    /\ [][/\ (wpc = "poll") =>
                \/ wpc' = "returned" /\ wret' = "receipt" /\ Last(pollOutcomes') = "receipt"
                \/ wpc' = "sleep" /\ wret' = "none" /\ Last(pollOutcomes') \in PollErrors
          /\ (wpc = "sleep") => (wpc' = "check" /\ elapsed' = elapsed + checkInterval)
          /\ (wpc = "check" /\ elapsed < maxWaitTime) => wpc' = "poll"
          /\ (wpc = "check" /\ elapsed >= maxWaitTime) => wret' = "timeout"]_vars
    /\ [](/\ Len(pollOutcomes) = polls
          /\ \A i \in 1..(polls - 1) : pollOutcomes[i] \in PollErrors
          /\ (wret = "receipt") <=> (polls > 0 /\ Last(pollOutcomes) = "receipt")
          /\ (wpc = "returned") => wret \in {"receipt", "timeout"}
          /\ (wpc = "returned" /\ maxWaitTime <= 0) => (polls = 0 /\ wret = "timeout"))

C29_Witness ==
    /\ wpc = "returned"
    /\ wret = "receipt"
    /\ pollOutcomes = <<"notfound", "rpcerror", "receipt">>

====
